---------------------------- MODULE Spec2Model ----------------------------
(***************************************************************************)
(* Penman: the batch runner (gui.TranscriberApp._run_worker), the YouTube  *)
(* resolver (youtube_service.fetch_video_info, download_audio and the      *)
(* error classification) and the transcription orchestrator                *)
(* (transcription_service.run_transcription, _transcribe_segments).        *)
(*                                                                         *)
(* Time is counted in milliseconds.  Texts are TLA+ strings; substring     *)
(* search and lower-casing are computed character by character.            *)
(***************************************************************************)
EXTENDS Integers, Sequences, FiniteSets, TLC

None == "<none>"

Min(a, b) == IF a <= b THEN a ELSE b

(***************************************************************************)
(* Text helpers: Python's `needle in haystack` and str.lower().            *)
(***************************************************************************)
UpperLetters == "ABCDEFGHIJKLMNOPQRSTUVWXYZ"
LowerLetters == "abcdefghijklmnopqrstuvwxyz"

Contains(haystack, needle) ==
    \E i \in 1..(Len(haystack) - Len(needle) + 1) :
        SubSeq(haystack, i, i + Len(needle) - 1) = needle

\* the lower-case letter of each upper-case letter
LowerOfUpper ==
    [ c \in { SubSeq(UpperLetters, i, i) : i \in 1..26 } |->
        LET i == CHOOSE j \in 1..26 : SubSeq(UpperLetters, j, j) = c
        IN  SubSeq(LowerLetters, i, i) ]

LowerChar(c) == IF c \in DOMAIN LowerOfUpper THEN LowerOfUpper[c] ELSE c

\* str.lower(), letter by letter
RECURSIVE lower_chars(_)
lower_chars(s) ==
    IF Len(s) = 0 THEN ""
    ELSE LowerChar(SubSeq(s, 1, 1)) \o lower_chars(SubSeq(s, 2, Len(s)))

\* Queue entries: local paths and URLs.  The queue never holds the same
\* entry twice (QueueService.append_unique).
ItemUniverse ==
    << "a.mp3", "https://youtu.be/v1", "B.wav", "http://example.com/clip" >>

\* str.lower() of the queue entries, computed once
LowerOfItem ==
    [ item \in { ItemUniverse[i] : i \in 1..Len(ItemUniverse) } |->
        lower_chars(item) ]

\* str.lower()
lower(s) == IF s \in DOMAIN LowerOfItem THEN LowerOfItem[s] ELSE lower_chars(s)

contains_any(haystack, needles) ==
    \E k \in 1..Len(needles) : Contains(haystack, needles[k])

(***************************************************************************)
(* youtube_service: constants.                                             *)
(***************************************************************************)
MAX_DOWNLOAD_RETRIES_PER_STRATEGY == 2
MAX_METADATA_RETRIES_PER_CLIENT == 1
BACKOFF_BASE_MS == 1200
BACKOFF_MAX_MS == 8000
SLEEP_SLICE_MS == 200

CANCEL_MESSAGE == "YouTube download was cancelled."
TRANSCRIPTION_CANCELLED_MESSAGE == "Transcription was cancelled."

(***************************************************************************)
(* youtube_service._classify_error: the marker tuples, in the order the    *)
(* code tests them.                                                        *)
(***************************************************************************)
ConfigurationMarkers ==
    << "ffmpeg", "ffprobe", "postprocessing",
       "please install or provide the path",
       "unable to obtain file audio codec" >>

AuthMarkers ==
    << "sign in to confirm your age", "log in to confirm your age",
       "login required", "age-restricted", "age restricted",
       "members-only", "members only", "this video may be inappropriate" >>

GeoMarkers ==
    << "not available in your country", "not available in your region",
       "geo-restricted", "geo restricted", "blocked in your country" >>

UnavailableMarkers ==
    << "private video", "this video is private", "video unavailable",
       "this video is unavailable", "has been removed",
       "video is no longer available", "copyright", "terminated" >>

RateLimitMarkers ==
    << "http error 429", "too many requests", "rate limit",
       "temporarily blocked", "quota exceeded" >>

NetworkMarkers ==
    << "timed out", "timeout", "network is unreachable",
       "temporary failure in name resolution", "name or service not known",
       "connection reset", "connection aborted", "connection refused",
       "remote end closed connection", "http error 408", "proxy error" >>

ServerMarkers ==
    << "http error 500", "http error 502", "http error 503",
       "http error 504", "internal server error", "bad gateway",
       "service unavailable" >>

StrategyMarkers ==
    << "drm", "requested format is not available",
       "requested format not available", "no video formats",
       "no formats found", "only images are available",
       "no longer supported", "configuration error",
       "nsig extraction failed", "signature extraction failed" >>

AccessDeniedMarkers == << "http error 403", "forbidden" >>

ErrorClassification(category, summary, hint, retry_same, try_next) ==
    [ category |-> category, summary |-> summary, hint |-> hint,
      retry_same_strategy |-> retry_same, try_next_strategy |-> try_next ]

classify_error_unordered(error_text) ==
    LET low == lower(error_text) IN
    IF contains_any(low, RateLimitMarkers) THEN
        ErrorClassification("transient_rate_limit",
            "YouTube rate-limited this request.",
            "Retrying with backoff may succeed.", TRUE, TRUE)
    ELSE IF contains_any(low, ConfigurationMarkers) THEN
        ErrorClassification("configuration",
            "Local yt-dlp/ffmpeg setup is not ready.",
            "Verify ffmpeg/ffprobe in PATH and update yt-dlp.", FALSE, FALSE)
    ELSE IF contains_any(low, AuthMarkers) THEN
        ErrorClassification("auth_or_age_restriction",
            "YouTube requires login or age verification.",
            "Use a public video or configure yt-dlp cookies.", FALSE, FALSE)
    ELSE IF contains_any(low, GeoMarkers) THEN
        ErrorClassification("geo_restricted",
            "Video is blocked in this region.",
            "Use a video available in your region.", FALSE, FALSE)
    ELSE IF contains_any(low, UnavailableMarkers) THEN
        ErrorClassification("video_unavailable",
            "Video is unavailable, private, or removed.",
            "Verify the URL is public and playable in browser.", FALSE, FALSE)
    ELSE IF contains_any(low, NetworkMarkers) THEN
        ErrorClassification("transient_network",
            "Temporary network/connectivity issue.",
            "Retrying with backoff may recover.", TRUE, TRUE)
    ELSE IF contains_any(low, ServerMarkers) THEN
        ErrorClassification("transient_server",
            "Temporary YouTube/server-side problem.",
            "Retrying with backoff may recover.", TRUE, TRUE)
    ELSE IF contains_any(low, StrategyMarkers) THEN
        ErrorClassification("strategy_or_format",
            "Current format/client strategy is incompatible.",
            "Trying a different strategy may work.", FALSE, TRUE)
    ELSE IF Contains(low, "http error 403") \/ Contains(low, "forbidden") THEN
        ErrorClassification("access_denied",
            "Access denied for current strategy.",
            "A different strategy may work; otherwise verify video access.",
            FALSE, TRUE)
    ELSE
        ErrorClassification("unknown",
            "Unclassified yt-dlp error.",
            "Will try next strategy when available.", FALSE, TRUE)

classify_error(error_text) ==
    LET low == lower(error_text) IN
    IF contains_any(low, ConfigurationMarkers) THEN
        ErrorClassification("configuration",
            "Local yt-dlp/ffmpeg setup is not ready.",
            "Verify ffmpeg/ffprobe in PATH and update yt-dlp.", FALSE, FALSE)
    ELSE IF contains_any(low, AuthMarkers) THEN
        ErrorClassification("auth_or_age_restriction",
            "YouTube requires login or age verification.",
            "Use a public video or configure yt-dlp cookies.", FALSE, FALSE)
    ELSE IF contains_any(low, GeoMarkers) THEN
        ErrorClassification("geo_restricted",
            "Video is blocked in this region.",
            "Use a video available in your region.", FALSE, FALSE)
    ELSE IF contains_any(low, UnavailableMarkers) THEN
        ErrorClassification("video_unavailable",
            "Video is unavailable, private, or removed.",
            "Verify the URL is public and playable in browser.", FALSE, FALSE)
    ELSE IF contains_any(low, RateLimitMarkers) THEN
        ErrorClassification("transient_rate_limit",
            "YouTube rate-limited this request.",
            "Retrying with backoff may succeed.", TRUE, TRUE)
    ELSE IF contains_any(low, NetworkMarkers) THEN
        ErrorClassification("transient_network",
            "Temporary network/connectivity issue.",
            "Retrying with backoff may recover.", TRUE, TRUE)
    ELSE IF contains_any(low, ServerMarkers) THEN
        ErrorClassification("transient_server",
            "Temporary YouTube/server-side problem.",
            "Retrying with backoff may recover.", TRUE, TRUE)
    ELSE IF contains_any(low, StrategyMarkers) THEN
        ErrorClassification("strategy_or_format",
            "Current format/client strategy is incompatible.",
            "Trying a different strategy may work.", FALSE, TRUE)
    ELSE IF Contains(low, "http error 403") \/ Contains(low, "forbidden") THEN
        ErrorClassification("access_denied",
            "Access denied for current strategy.",
            "A different strategy may work; otherwise verify video access.",
            FALSE, TRUE)
    ELSE
        ErrorClassification("unknown",
            "Unclassified yt-dlp error.",
            "Will try next strategy when available.", FALSE, TRUE)


retry_delay_no_doubling(retry_index) == Min(BACKOFF_MAX_MS, BACKOFF_BASE_MS)

\* _retry_delay_seconds, in milliseconds
retry_delay_seconds(retry_index) ==
    Min(BACKOFF_MAX_MS, BACKOFF_BASE_MS * (2 ^ retry_index))

format_terminal_error_no_category(operation, strategy_label, classification, raw_error) ==
    "Failed to " \o operation \o ". " \o classification.summary
        \o " Strategy: " \o strategy_label \o ". Hint: " \o classification.hint
        \o " Details: " \o raw_error

format_terminal_error(operation, strategy_label, classification, raw_error) ==
    "Failed to " \o operation \o ". Category: " \o classification.category
        \o ". " \o classification.summary
        \o " Strategy: " \o strategy_label \o ". Hint: " \o classification.hint
        \o " Details: " \o raw_error

format_exhausted_error_no_details(last_failure) ==
    "Failed to " \o last_failure.operation \o " after all retry strategies. "
        \o "Last category: " \o last_failure.classification.category \o ". "
        \o last_failure.classification.summary
        \o " Last strategy: " \o last_failure.strategy_label \o ". Hint: "
        \o last_failure.classification.hint

format_exhausted_error(last_failure) ==
    "Failed to " \o last_failure.operation \o " after all retry strategies. "
        \o "Last category: " \o last_failure.classification.category \o ". "
        \o last_failure.classification.summary
        \o " Last strategy: " \o last_failure.strategy_label \o ". Hint: "
        \o last_failure.classification.hint
        \o " Details: " \o last_failure.raw_error

FailureContext(operation, strategy_label, classification, raw_error) ==
    [ operation |-> operation, strategy_label |-> strategy_label,
      classification |-> classification, raw_error |-> raw_error ]

\* str.strip(): leading and trailing whitespace removed
Whitespace == { " ", "\n", "\t" }

RECURSIVE lstrip(_)
lstrip(s) ==
    IF Len(s) > 0 /\ SubSeq(s, 1, 1) \in Whitespace
    THEN lstrip(SubSeq(s, 2, Len(s))) ELSE s

RECURSIVE rstrip(_)
rstrip(s) ==
    IF Len(s) > 0 /\ SubSeq(s, Len(s), Len(s)) \in Whitespace
    THEN rstrip(SubSeq(s, 1, Len(s) - 1)) ELSE s

strip(s) == rstrip(lstrip(s))

\* config.YOUTUBE_URL_PATTERNS: every pattern is an optional scheme and an
\* optional "www." followed by a literal; re.search with IGNORECASE therefore
\* matches exactly when the literal occurs in the text, whatever its case.
YOUTUBE_URL_PATTERNS ==
    << "youtube.com/watch?v=", "youtu.be/", "youtube.com/shorts/",
       "youtube.com/live/" >>

is_youtube_url(url) ==
    LET candidate == strip(url) IN
    /\ Len(candidate) > 0
    /\ contains_any(lower(candidate), YOUTUBE_URL_PATTERNS)

StartsWith(s, prefix) ==
    Len(s) >= Len(prefix) /\ SubSeq(s, 1, Len(prefix)) = prefix

\* gui.TranscriberApp._is_youtube_item
is_youtube_item(item) ==
    LET normalized == lower(strip(item)) IN
    StartsWith(normalized, "http://") \/ StartsWith(normalized, "https://")

ClientStrategies == << "android client", "web/mweb client", "default client" >>

DownloadStrategies ==
    << "android / bestaudio", "android / format18 fallback",
       "web+mweb / bestaudio", "default / bestaudio",
       "android / relaxed format" >>

failure_action_retry_off_by_one(classification, retry_idx, max_retries) ==
    IF classification.retry_same_strategy /\ retry_idx <= max_retries THEN "retry"
    ELSE IF classification.try_next_strategy THEN "next"
    ELSE "terminal"

failure_action_retry_everything(classification, retry_idx, max_retries) ==
    IF retry_idx < max_retries /\ classification.try_next_strategy THEN "retry"
    ELSE IF classification.try_next_strategy THEN "next"
    ELSE "terminal"

failure_action_retry_without_limit(classification, retry_idx, max_retries) ==
    IF classification.retry_same_strategy THEN "retry"
    ELSE IF classification.try_next_strategy THEN "next"
    ELSE "terminal"

failure_action_never_terminal(classification, retry_idx, max_retries) ==
    IF classification.retry_same_strategy /\ retry_idx < max_retries THEN "retry"
    ELSE "next"

\* What the except clauses of fetch_video_info and download_audio do with a
\* classified failure: sleep and retry, break to the next strategy, or raise.
failure_action(classification, retry_idx, max_retries) ==
    IF classification.retry_same_strategy /\ retry_idx < max_retries THEN "retry"
    ELSE IF classification.try_next_strategy THEN "next"
    ELSE "terminal"


(***************************************************************************)
(* transcription_service: the pure parts of run_transcription.  Durations *)
(* are in milliseconds, so that a duration just above a whole second can  *)
(* be told from that second; chunk lengths are whole seconds.              *)
(***************************************************************************)
Max(a, b) == IF a >= b THEN a ELSE b

ADAPTIVE_MIN_SEGMENT_SECONDS == 1
ADAPTIVE_MAX_SEGMENT_SECONDS == 600
ADAPTIVE_SKIP_SEGMENT_MS == 15 * 60 * 1000
ADAPTIVE_MEDIUM_AUDIO_MS == 60 * 60 * 1000
ADAPTIVE_LONG_AUDIO_MS == 2 * 60 * 60 * 1000

\* _probe_media_duration_seconds gives None when the duration is unknown;
\* a known duration is positive
NoDuration == 0

clamp_segment_seconds_unclamped(value) == value

clamp_segment_seconds(value) ==
    Max(ADAPTIVE_MIN_SEGMENT_SECONDS, Min(ADAPTIVE_MAX_SEGMENT_SECONDS, value))

SegmentationPlan(should_segment, effective, reason) ==
    [ should_segment |-> should_segment,
      effective_segment_seconds |-> effective,
      reason |-> reason ]

NoPlan == SegmentationPlan(FALSE, 0, "")

build_segmentation_plan_strict_skip(duration, requested_segment_seconds, device) ==
    LET requested == clamp_segment_seconds(requested_segment_seconds)
    IN  IF duration # NoDuration /\ duration < ADAPTIVE_SKIP_SEGMENT_MS
        THEN SegmentationPlan(FALSE, requested, "short_input_skip_segmentation")
        ELSE SegmentationPlan(TRUE, requested, "requested_segment_length")

build_segmentation_plan(duration, requested_segment_seconds, device) ==
    LET requested == clamp_segment_seconds(requested_segment_seconds)
        adapted ==
            IF device = "cpu"
            THEN IF duration >= ADAPTIVE_LONG_AUDIO_MS THEN Min(requested, 90)
                 ELSE IF duration >= ADAPTIVE_MEDIUM_AUDIO_MS
                 THEN Min(requested, 120)
                 ELSE requested
            ELSE IF duration >= ADAPTIVE_LONG_AUDIO_MS THEN Max(requested, 240)
                 ELSE IF duration >= ADAPTIVE_MEDIUM_AUDIO_MS
                 THEN Max(requested, 180)
                 ELSE requested
        effective == clamp_segment_seconds(adapted)
    IN  IF duration = NoDuration
        THEN SegmentationPlan(TRUE, requested, "duration_unknown")
        ELSE IF duration <= ADAPTIVE_SKIP_SEGMENT_MS
        THEN SegmentationPlan(FALSE, requested, "short_input_skip_segmentation")
        ELSE IF effective # requested
        THEN SegmentationPlan(TRUE, effective, "adaptive_segment_length_adjusted")
        ELSE SegmentationPlan(TRUE, effective, "requested_segment_length")

\* config.INPUT_FORMATS and config.DEFAULT_INPUT_FORMAT
INPUT_FORMATS ==
    << "auto", "mp3", "wav", "m4a", "flac", "ogg", "webm", "mp4", "mkv", "mov",
       "avi" >>
DEFAULT_INPUT_FORMAT == "auto"

InSeq(x, seq) == \E k \in 1..Len(seq) : seq[k] = x

Range(seq) == { seq[k] : k \in 1..Len(seq) }

\* the members of a sequence that satisfy a test, in its order
RECURSIVE SelectFrom(_, _)
SelectFrom(seq, keep) ==
    IF seq = << >> THEN << >>
    ELSE IF Head(seq) \in keep THEN << Head(seq) >> \o SelectFrom(Tail(seq), keep)
    ELSE SelectFrom(Tail(seq), keep)

Ok(value) == [ ok |-> TRUE, value |-> value ]
Failed(message) == [ ok |-> FALSE, value |-> message ]

\* _validate_and_detect_input_format on a file that exists or not and whose
\* name has the given lower-cased extension ("" when it has none)
validate_and_detect_input_format(path, exists, extension, selected_format) ==
    IF ~exists THEN Failed("Input file was not found: " \o path)
    ELSE IF extension = "" THEN Failed("Input file has no extension.")
    ELSE IF ~InSeq(extension, INPUT_FORMATS)
    THEN Failed("Unsupported input format: ." \o extension)
    ELSE IF /\ lower(strip(selected_format)) # DEFAULT_INPUT_FORMAT
            /\ lower(strip(selected_format)) # extension
    THEN Failed("Selected input format '" \o lower(strip(selected_format))
                \o "' does not match file extension '." \o extension \o "'.")
    ELSE Ok(extension)

\* what the machine offers: PyTorch importable, CUDA, MPS
Hardware(torch, cuda, mps) == [ torch |-> torch, cuda |-> cuda, mps |-> mps ]

Device(name, fp16) == [ name |-> name, fp16 |-> fp16 ]

\* _resolve_compute_device with the fall-back of "auto" after a failed
\* import left out
resolve_compute_device_needing_torch(requested_device, hw) ==
    LET normalized == lower(strip(requested_device))
    IN  IF normalized \notin {"auto", "cpu", "gpu"}
        THEN Failed("Unsupported compute device: " \o requested_device
                    \o ". Supported: auto, cpu, gpu.")
        ELSE IF normalized = "cpu" THEN Ok(Device("cpu", FALSE))
        ELSE IF ~hw.torch
        THEN Failed("GPU was selected, but PyTorch is unavailable or misconfigured.")
        ELSE IF hw.cuda THEN Ok(Device("cuda", TRUE))
        ELSE IF hw.mps THEN Ok(Device("mps", FALSE))
        ELSE IF normalized = "gpu"
        THEN Failed("GPU was selected, but CUDA/MPS is not available.")
        ELSE Ok(Device("cpu", FALSE))

resolve_compute_device(requested_device, hw) ==
    LET normalized == lower(strip(requested_device))
    IN  IF normalized \notin {"auto", "cpu", "gpu"}
        THEN Failed("Unsupported compute device: " \o requested_device
                    \o ". Supported: auto, cpu, gpu.")
        ELSE IF normalized = "cpu" THEN Ok(Device("cpu", FALSE))
        ELSE IF ~hw.torch
        THEN IF normalized = "auto" THEN Ok(Device("cpu", FALSE))
             ELSE Failed("GPU was selected, but PyTorch is unavailable or misconfigured.")
        ELSE IF hw.cuda THEN Ok(Device("cuda", TRUE))
        ELSE IF hw.mps THEN Ok(Device("mps", FALSE))
        ELSE IF normalized = "gpu"
        THEN Failed("GPU was selected, but CUDA/MPS is not available.")
        ELSE Ok(Device("cpu", FALSE))

\* the output formats _save_output has an exporter for
EXPORT_FORMATS == { "txt", "json", "md", "srt", "vtt" }

\* the finally clause of run_transcription: what is left of the temporary
\* directory ("absent" or "present")
temp_dir_after_exit_never_removed(keep_segments, dir) == dir

temp_dir_after_exit(keep_segments, dir) ==
    IF ~keep_segments /\ dir = "present" THEN "absent" ELSE dir

(***************************************************************************)
(* transcription_service: the model cache.                                 *)
(***************************************************************************)
MaxThreads == 2
MaxCalls == 3

Threads == 1..MaxThreads

\* cache keys (model_name, compute_device); NoKey stands for None
NoKey == << "", "" >>
CacheKeys == { << "base", "cpu" >>, << "base", "cuda" >> }

\* a call of _get_or_load_model or of clear_model_cache
Acquire(key, reuse_model) ==
    [ op |-> "acquire", key |-> key, reuse_model |-> reuse_model ]
ClearCall == [ op |-> "clear", key |-> NoKey, reuse_model |-> FALSE ]
NoCall == [ op |-> "none", key |-> NoKey, reuse_model |-> FALSE ]

\* what _get_or_load_model gave: (model, reused) or an exception of the load
Ret(instance, hit, raised) ==
    [ instance |-> instance, hit |-> hit, raised |-> raised ]
NoRet == Ret(0, FALSE, FALSE)

\* an event of the cache
Event(kind, thread, key, instance) == << kind, thread, key, instance >>
NoEvent == Event("none", 0, NoKey, 0)

IsCacheChange(e) == e[1] \in { "populate", "evict", "clear" }

acquire_steps_hit_any_key(reuse_model, cached_key, cached_instance, cache_key) ==
    IF reuse_model /\ cached_instance # 0
    THEN << "hit" >>
    ELSE IF reuse_model THEN << "load", "populate" >>
    ELSE << "load" >>

acquire_steps_load_first(reuse_model, cached_key, cached_instance, cache_key) ==
    IF reuse_model /\ cached_instance # 0 /\ cached_key = cache_key
    THEN << "hit" >>
    ELSE IF reuse_model /\ cached_instance # 0
    THEN << "load", "evict", "release", "populate" >>
    ELSE IF reuse_model THEN << "load", "populate" >>
    ELSE << "load" >>

acquire_steps_always_populate(reuse_model, cached_key, cached_instance, cache_key) ==
    IF reuse_model /\ cached_instance # 0 /\ cached_key = cache_key
    THEN << "hit" >>
    ELSE IF reuse_model /\ cached_instance # 0
    THEN << "evict", "release", "load", "populate" >>
    ELSE << "load", "populate" >>

\* lines 83-100: the statements the locked section of _get_or_load_model
\* runs, decided by what it finds in the cache
acquire_steps(reuse_model, cached_key, cached_instance, cache_key) ==
    IF reuse_model /\ cached_instance # 0 /\ cached_key = cache_key
    THEN << "hit" >>
    ELSE IF reuse_model /\ cached_instance # 0
    THEN << "evict", "release", "load", "populate" >>
    ELSE IF reuse_model THEN << "load", "populate" >>
    ELSE << "load" >>

lock_free_always(holder) == TRUE

\* threading.Lock: it can be taken when no thread holds it
lock_free(holder) == holder = 0

(***************************************************************************)
(* youtube_service: the metadata cache.  A dict is an object with an       *)
(* identity; its contents stand for the title, the duration and the url.   *)
(***************************************************************************)
MaxTtl == 2
MaxTime == 3
MaxOps == 3

\* urls as callers write them, and the keys they are stored under
MdUrls == { "u1", " u1 ", "u2", " " }
MdKeys == { "u1", "u2" }

CacheEntry(cached_at, obj) == [ at |-> cached_at, obj |-> obj ]
NoEntry == CacheEntry(0, 0)

SetCall(made, at, info) == [ made |-> made, at |-> at, info |-> info ]
NoSet == SetCall(FALSE, 0, "")

Read(n, url, obj) == [ n |-> n, url |-> url, obj |-> obj ]
NoRead == Read(0, "", 0)

\* lines 88-89
normalize_cache_key(url) == strip(url)

\* lines 92-104
purge_expired_metadata_cache(cache, now, ttl) ==
    IF ttl <= 0 THEN [ k \in DOMAIN cache |-> NoEntry ]
    ELSE [ k \in DOMAIN cache |->
            IF cache[k].obj # 0 /\ (now - cache[k].at) > ttl
            THEN NoEntry ELSE cache[k] ]

dict_alias(heap, obj) == [ heap |-> heap, obj |-> obj ]

\* dict(d): a new object with the contents of d
dict_copy(heap, obj) ==
    [ heap |-> Append(heap, heap[obj]), obj |-> Len(heap) + 1 ]

\* the arguments of one call of run_transcription
RunArgs(keep_segments, output_format, compute_device, seconds, selected) ==
    [ keep_segments |-> keep_segments, output_format |-> output_format,
      compute_device |-> compute_device, segment_time_sec |-> seconds,
      selected_input_format |-> selected ]

\* config.DEFAULT_SEGMENT_SECONDS
DEFAULT_SEGMENT_SECONDS == 300

\* the call the worker makes when the settings are the defaults
DefaultRunArgs == RunArgs(FALSE, "txt", "cpu", DEFAULT_SEGMENT_SECONDS, "auto")
NoRunArgs == RunArgs(FALSE, "", "", 0, "")

\* what a call of run_transcription can meet: the arguments it is given,
\* whether ffmpeg is in PATH, whether the input exists, the extension of its
\* name, the hardware, and the duration the probe reports
RunEnv(args, ffmpeg, exists, extensions, hardware, durations) ==
    [ args |-> args, ffmpeg |-> ffmpeg, exists |-> exists,
      extensions |-> extensions, hardware |-> hardware,
      durations |-> durations ]

\* what one call meets: ffmpeg in PATH, the input file there, the extension
\* of its name, the hardware, the duration the probe reports for the file
RunInput(ffmpeg, exists, extension, hw, duration) ==
    [ ffmpeg |-> ffmpeg, exists |-> exists, extension |-> extension,
      hw |-> hw, duration |-> duration ]

NoRunInput ==
    RunInput(TRUE, TRUE, "", Hardware(FALSE, FALSE, FALSE), NoDuration)

\* a batch run with the default settings
PlainRunEnv ==
    RunEnv({ DefaultRunArgs }, BOOLEAN, BOOLEAN, { "mp3" },
           { Hardware(FALSE, FALSE, FALSE) }, { NoDuration, 600 * 1000 })

\* calls with every kind of argument and input
FullRunEnv ==
    RunEnv({ DefaultRunArgs,
             RunArgs(TRUE, " JSON ", " GPU ", 30, "mp3"),
             RunArgs(FALSE, "pdf", "auto", 700, "Auto"),
             RunArgs(TRUE, "txt", "tpu", 300, "auto"),
             RunArgs(FALSE, "srt", "auto", 0, "wav") },
           BOOLEAN, BOOLEAN, { "mp3", "", "exe" },
           { Hardware(FALSE, FALSE, FALSE), Hardware(TRUE, TRUE, FALSE),
             Hardware(TRUE, FALSE, TRUE), Hardware(TRUE, FALSE, FALSE) },
           { NoDuration, 1000, 900 * 1000, 900 * 1000 + 1, 3600 * 1000,
             7200 * 1000 })

(***************************************************************************)
(* Bounds of the model.                                                    *)
(***************************************************************************)
MaxItems == 3
MaxSegments == 2

Items == { ItemUniverse[i] : i \in 1..Min(MaxItems, Len(ItemUniverse)) }

Queues ==
    { q \in UNION { [1..n -> Items] : n \in 1..Min(MaxItems, Cardinality(Items)) } :
        \A i, j \in DOMAIN q : i # j => q[i] # q[j] }

\* Diagnostic texts the extraction library fails with, one per category.
AllErrorTexts ==
    { "ERROR: Postprocessing: ffprobe and ffmpeg not found",
      "Sign in to confirm your age",
      "The uploader has not made this video available in your country",
      "This video is private",
      "HTTP Error 429: Too Many Requests",
      "Connection reset by peer",
      "HTTP Error 503: Service Unavailable",
      "Requested format is not available",
      "HTTP Error 403: Forbidden",
      "Unsupported URL" }

FewErrorTexts ==
    { "This video is private",
      "HTTP Error 429: Too Many Requests",
      "Requested format is not available" }

\* what model.transcribe returns as "text", and what it raises
ModelTexts == { " hello", "" }
ModelErrors == { "CUDA out of memory", "" }

\* <<raised, value>>: the text returned, or the message of the exception
AllModelOutcomes ==
    { << FALSE, text >> : text \in ModelTexts } \cup
    { << TRUE, message >> : message \in ModelErrors }
PlainModelOutcomes == { << FALSE, " hello" >>, << TRUE, "CUDA out of memory" >> }

EMPTY_METADATA_TEXT == "empty metadata response"

\* _classify_error on the texts of the model, computed once
ClassificationOf ==
    [ t \in AllErrorTexts \cup {EMPTY_METADATA_TEXT} |-> classify_error(t) ]

NoClassification == ErrorClassification("", "", "", FALSE, FALSE)
NoFailure == FailureContext("", "", NoClassification, "")
NoExc == [ type |-> "none", msg |-> "" ]
Exc(type, msg) == [ type |-> type, msg |-> msg ]

TranscriptionError(msg) == Exc("TranscriptionError", msg)
TranscriptionCancelled(msg) == Exc("TranscriptionCancelled", msg)
YoutubeDownloadCancelled(msg) == Exc("_YoutubeDownloadCancelled", msg)

NoSummary ==
    [ total_items |-> 0, success_items |-> 0, failed_items |-> 0,
      run_policy |-> "", stopped_on_error |-> FALSE, pending_items |-> 0 ]

VARIABLES
    input_files,      \* _run_worker: the queue handed to the worker
    run_policy,       \* "continue" or "stop"
    yt_errors,        \* diagnostic texts the extraction library can fail with
    model_outcomes,   \* what model.transcribe can do: <<raised, value>>
    cancel_event,     \* TranscriberApp.cancel_event
    w_pc,             \* where the worker thread is
    index,            \* _run_worker: 1-based position of the current item
    outputs,          \* _run_worker: output paths of the items that succeeded
    failures,         \* _run_worker: <<queue_item, str(exc)>> of each failed item
    stopped_on_error,
    pending_items,
    ui_queue,         \* events put by the worker: <<kind, index>>
    batch_summary,    \* BatchRunSummary of the batch_done event
    metadata_cache,   \* youtube_service._METADATA_CACHE: the cached keys
    f_pc, f_client, f_retry, f_wait, f_last_failure, f_exc,
    dl_pc, dl_strategy, dl_retry, dl_wait, dl_success, dl_last_failure, dl_exc,
    yt_download_dir,        \* _run_worker: the local is set (line 900)
    downloaded_audio_path,  \* _run_worker: the local is set (line 908)
    yt_dir_exists,    \* the download directory exists
    yt_files,         \* what it holds: "part" (unfinished data), "wav"
    fs_env,           \* what the file system can do in this run
    os_fault_seen,    \* history: unlink or rmdir failed for an outside reason
    t_pc, t_total, t_idx, segment_items, t_exc,
    t_env,            \* what calls of run_transcription can meet in this run
    t_args,           \* run_transcription: the arguments of the call
    t_input,          \* run_transcription: what the call met (ffmpeg, file)
    t_device,         \* run_transcription: resolved_device
    t_plan,           \* run_transcription: segmentation_plan
    temp_dir,         \* the temporary segment directory: "absent" or "present"
    t_work,           \* history: the kinds of work the call has done
    t_reports,        \* history: the progress values the call has reported
    full_text_parts,  \* _transcribe_segments: the text of each segment so far
    full_text,        \* _transcribe_segments: the joined text it returns
    model_calls,      \* history: <<idx, raised, value>> of each model.transcribe call
    cancel_seen,      \* history: item at which a check read the flag as set
    c_pc, c_text, c_result,
    file_queue,        \* TranscriberApp.file_queue, the items of queue_service
    active_queue_mode, \* TranscriberApp.active_queue_mode
    last_failed_items, \* TranscriberApp.last_failed_items
    ui_handled,        \* _process_queue has taken the last event of the run
    p_pc,             \* _build_segmentation_plan called alone: "call", "done"
    p_duration, p_requested, p_device,     \* its arguments
    p_plan,           \* its result
    mc_key,           \* _MODEL_CACHE_KEY (NoKey for None)
    mc_instance,      \* _MODEL_CACHE_INSTANCE: a model's identity, 0 for None
    mc_lock,          \* _MODEL_CACHE_LOCK: the thread holding it, 0 when free
    mc_pc,            \* per thread: "idle", "wait_lock", "locked",
                      \*   "clear_release", "returned"
    mc_call,          \* per thread: the call it is making or made last
    mc_todo,          \* per thread: what is left of the locked section
    mc_local,         \* per thread: the local variable model
    mc_ret,           \* per thread: what its last call returned
    mc_last_change,   \* history: the last event that filled or emptied
                      \*   the cache
    mc_prev,          \* history, per thread: the kind of its last event
    mc_next,          \* the identity of the next model to be loaded
    mc_calls,         \* the number of calls made so far
    mc_overlap,       \* history: a call began while another was under way
    md_ttl,           \* _METADATA_CACHE_TTL_SECONDS
    md_now,           \* time.monotonic(), in seconds
    md_cache,         \* _METADATA_CACHE: key -> (cached_at, dict object)
    md_heap,          \* the dict objects: identity -> contents
    md_held,          \* the dict objects callers hold and can mutate
    md_history,       \* history, per key: the last call of the setter
    md_ret,           \* the last call of get_cached_video_info
    md_ops,           \* the number of calls made so far
    so_files,         \* the names of the files in the output directory
    so_last,          \* history: the last call of _save_output
    so_saves,         \* the number of calls made so far
    loc_pc,           \* the end of download_audio alone: "call", "done"
    loc_prepared,     \* prepared_path, a name in the download directory
    loc_hook,         \* last_downloaded_file ("" for None)
    loc_video_id,     \* info.get("id") ("" when info is None or has no id)
    loc_dir,          \* the names in the download directory, newest first
    loc_not_files,    \* those of them that are not regular files
    loc_result,       \* what download_audio returned or raised
    q_items,          \* QueueService._items
    q_last,           \* history: the last call made on the queue service
    dev_call,         \* history: the last call of _resolve_compute_device
    srt_payload,      \* the data export_srt was called with
    srt_written,      \* the text export_srt wrote to output_path
    fc_ttl,           \* fetch_video_info alone: _METADATA_CACHE_TTL_SECONDS
    fc_now,           \* time.monotonic(), in seconds
    fc_cache,         \* _METADATA_CACHE: key -> (cached_at, 1), or NoEntry
    fc_fetched,       \* history, per key: when a fetch last got the
                      \*   metadata from the extractor, -1 for never
    fc_last,          \* history: the last call of fetch_video_info
    fc_ops,           \* the number of calls made so far
    tl_call,          \* history: the last call of _transcribe_segments alone
    hq_worker,        \* the hand-off alone: where the worker thread is
    hq_queue,         \* ui_queue: the kinds of the events not yet taken
    hq_poll,          \* where _process_queue is
    hq_is_running,    \* self.is_running
    sm_pc,            \* run_transcription and its sink alone: the statement
    sm_metrics,       \* the local dict metrics: the names it holds
    stage_metrics,    \* the caller's dict: name -> the call that wrote it
    sm_call           \* history: the call in progress or the last one

batchVars ==
    << input_files, run_policy, yt_errors, model_outcomes, w_pc, index, outputs,
       failures, stopped_on_error, pending_items, ui_queue, batch_summary >>
fetchVars == << f_pc, f_client, f_retry, f_wait, f_last_failure, f_exc >>
dlVars ==
    << dl_pc, dl_strategy, dl_retry, dl_wait, dl_success, dl_last_failure, dl_exc >>
textVars == << full_text_parts, full_text >>
fsVars ==
    << yt_download_dir, downloaded_audio_path, yt_dir_exists, yt_files, fs_env,
       os_fault_seen >>
tRunVars ==
    << t_env, t_args, t_input, t_device, t_plan, temp_dir, t_work, t_reports,
       textVars >>
tVars ==
    << t_pc, t_total, t_idx, segment_items, t_exc, model_calls, tRunVars >>
cVars == << c_pc, c_text, c_result >>
uiVars == << file_queue, active_queue_mode, last_failed_items, ui_handled >>
planVars == << p_pc, p_duration, p_requested, p_device, p_plan >>
mcVars ==
    << mc_key, mc_instance, mc_lock, mc_pc, mc_call, mc_todo, mc_local, mc_ret,
       mc_last_change, mc_prev, mc_next, mc_calls, mc_overlap >>
mdVars ==
    << md_ttl, md_now, md_cache, md_heap, md_held, md_history, md_ret, md_ops >>
soVars == << so_files, so_last, so_saves >>
locVars ==
    << loc_pc, loc_prepared, loc_hook, loc_video_id, loc_dir, loc_not_files,
       loc_result >>
qVars == << q_items, q_last >>
devVars == << dev_call >>
srtVars == << srt_payload, srt_written >>
fcVars == << fc_ttl, fc_now, fc_cache, fc_fetched, fc_last, fc_ops >>
tlVars == << tl_call >>
hqVars == << hq_worker, hq_queue, hq_poll, hq_is_running >>
smVars == << sm_pc, sm_metrics, stage_metrics, sm_call >>
apiVars == << fcVars, tlVars, hqVars, smVars >>
serviceVars == << soVars, locVars, qVars, devVars, srtVars, apiVars >>
unitVars == << planVars, mcVars, mdVars, serviceVars >>
mainVars ==
    << batchVars, cancel_event, metadata_cache, fetchVars, dlVars, fsVars, tVars,
       cancel_seen, cVars, uiVars >>
vars ==
    << batchVars, cancel_event, metadata_cache, fetchVars, dlVars, fsVars, tVars,
       cancel_seen, cVars, uiVars, unitVars >>

(***************************************************************************)
(* Initial states.                                                         *)
(***************************************************************************)
FetchIdle ==
    /\ f_pc = "idle" /\ f_client = 1 /\ f_retry = 0 /\ f_wait = 0
    /\ f_last_failure = NoFailure /\ f_exc = NoExc

DownloadIdle ==
    /\ dl_pc = "idle" /\ dl_strategy = 1 /\ dl_retry = 0 /\ dl_wait = 0
    /\ dl_success = FALSE /\ dl_last_failure = NoFailure /\ dl_exc = NoExc

TranscriptionIdle ==
    /\ t_pc = "idle" /\ t_total = 0 /\ t_idx = 0 /\ segment_items = << >>
    /\ t_exc = NoExc /\ model_calls = << >>
    /\ t_args = NoRunArgs /\ t_input = NoRunInput
    /\ t_device = "" /\ t_plan = NoPlan
    /\ temp_dir = "absent" /\ t_work = {} /\ t_reports = << >>
    /\ full_text_parts = << >> /\ full_text = ""

ClassifyIdle == c_pc = "idle" /\ c_text = "" /\ c_result = NoClassification

\* what a run can meet in the download directory: whether a download that
\* fails or is cancelled leaves unfinished data behind, and whether unlink
\* and rmdir can fail for a reason outside the program
FsEnv(partial, faults) == [ partial |-> partial, faults |-> faults ]
PlainFs == FsEnv({ FALSE }, { FALSE })
FullFs == FsEnv(BOOLEAN, BOOLEAN)

\* gui.py lines 649-655 and 693-695: the run started from the queue, or from
\* the one path of the input field when the queue is empty
StartedFrom(queue) ==
    /\ file_queue = queue
    /\ active_queue_mode = (queue # << >>)
    /\ last_failed_items = << >>
    /\ ui_handled = FALSE

\* _start_transcription has cleared the cancel flag and started the worker.
WorkerFresh ==
    /\ run_policy \in {"continue", "stop"}
    /\ cancel_event = FALSE
    /\ w_pc = "loop" /\ index = 1
    /\ outputs = << >> /\ failures = << >>
    /\ stopped_on_error = FALSE /\ pending_items = << >>
    /\ ui_queue = << >> /\ batch_summary = NoSummary
    /\ metadata_cache = {}
    /\ cancel_seen = 0
    /\ FetchIdle /\ DownloadIdle /\ TranscriptionIdle
    /\ yt_download_dir = FALSE /\ downloaded_audio_path = FALSE
    /\ yt_dir_exists = FALSE /\ yt_files = {} /\ os_fault_seen = FALSE

PlanIdle ==
    /\ p_pc = "idle" /\ p_duration = NoDuration /\ p_requested = 0
    /\ p_device = "" /\ p_plan = NoPlan

ModelCacheIdle ==
    /\ mc_key = NoKey /\ mc_instance = 0 /\ mc_lock = 0
    /\ mc_pc = [ t \in Threads |-> "idle" ]
    /\ mc_call = [ t \in Threads |-> NoCall ]
    /\ mc_todo = [ t \in Threads |-> << >> ]
    /\ mc_local = [ t \in Threads |-> 0 ]
    /\ mc_ret = [ t \in Threads |-> NoRet ]
    /\ mc_last_change = NoEvent
    /\ mc_prev = [ t \in Threads |-> "none" ]
    /\ mc_next = 1 /\ mc_calls = 0 /\ mc_overlap = FALSE

MetadataCacheFresh ==
    /\ md_now = 0
    /\ md_cache = [ k \in MdKeys |-> NoEntry ]
    /\ md_heap = << "A" >>
    /\ md_held = { 1 }
    /\ md_history = [ k \in MdKeys |-> NoSet ]
    /\ md_ret = NoRead /\ md_ops = 0

MetadataCacheIdle == md_ttl = 0 /\ MetadataCacheFresh

\* _save_output was never called and the output directory is empty
NoSave == [ made |-> FALSE, base_name |-> "", output_format |-> "",
            before |-> {}, output_path |-> "" ]

SaveOutputIdle == so_files = {} /\ so_last = NoSave /\ so_saves = 0

NoResult == [ ok |-> FALSE, value |-> "" ]

LocateIdle ==
    /\ loc_pc = "idle" /\ loc_prepared = "" /\ loc_hook = ""
    /\ loc_video_id = "" /\ loc_dir = << >> /\ loc_not_files = {}
    /\ loc_result = NoResult

\* a call on the queue service: its arguments, the items before it and
\* what it returned
QueueCall(op, paths, value, indices, before, ret) ==
    [ op |-> op, paths |-> paths, value |-> value, indices |-> indices,
      before |-> before, ret |-> ret ]

NoQueueCall == QueueCall("none", << >>, "", << >>, << >>, << >>)

QueueIdle == q_items = << >> /\ q_last = NoQueueCall

\* a call of _resolve_compute_device and what it returned or raised
DeviceCall(requested_device, hw, result) ==
    [ requested_device |-> requested_device, hw |-> hw, result |-> result ]

NoDeviceCall == DeviceCall("", Hardware(FALSE, FALSE, FALSE), Failed(""))

DeviceIdle == dev_call = NoDeviceCall

\* the data of an export: metadata and the like left out
Payload(timeline_segments, segments, text_in_full) ==
    [ timeline_segments |-> timeline_segments, segments |-> segments,
      full_text |-> text_in_full ]

NoPayload == Payload(<< >>, << >>, "")
NothingWritten == "nothing written"

SrtIdle == srt_payload = NoPayload /\ srt_written = NothingWritten

\* the urls fetch_video_info is called with, and the keys of the valid ones
FcUrls ==
    { "https://youtu.be/v1", " https://youtu.be/v1 ", "https://youtu.be/v2",
      "http://example.com/clip" }
FcKeys == { "https://youtu.be/v1", "https://youtu.be/v2" }

\* one call of fetch_video_info: what it was called with, how it ended,
\* how often it called extract_info, and the cache and the time it found
FetchCall(url, outcome, extractor_calls, before, at) ==
    [ url |-> url, outcome |-> outcome, extractor_calls |-> extractor_calls,
      before |-> before, at |-> at ]
NoFetchCall == FetchCall("", "none", 0, [ k \in FcKeys |-> NoEntry ], 0)

FetchCacheFresh ==
    /\ fc_now = 0
    /\ fc_cache = [ k \in FcKeys |-> NoEntry ]
    /\ fc_fetched = [ k \in FcKeys |-> 0 - 1 ]
    /\ fc_last = NoFetchCall /\ fc_ops = 0

FetchCacheIdle == fc_ttl = 0 /\ FetchCacheFresh

\* one call of _transcribe_segments: the plan of the run and the
\* segment_offset_seconds it was called with, what model.transcribe gave
\* for each chunk, and the timeline_segments returned
SegmentsCall(made, plan, nominal, results, timeline) ==
    [ made |-> made, plan |-> plan, nominal |-> nominal, results |-> results,
      timeline |-> timeline ]
NoSegmentsCall == SegmentsCall(FALSE, NoPlan, 0, << >>, << >>)

TimelineIdle == tl_call = NoSegmentsCall

\* a worker thread: whether it was started, the events it has put, the
\* terminal event if it has put it, whether is_alive() is True.  The
\* application before _start_transcription: nothing runs, nothing is
\* scheduled
HqWorker(started, puts, last, alive) ==
    [ started |-> started, puts |-> puts, last |-> last, alive |-> alive ]
NoWorker == HqWorker(FALSE, 0, "none", FALSE)

HandoffIdle ==
    /\ hq_worker = NoWorker /\ hq_queue = << >>
    /\ hq_poll = "none" /\ hq_is_running = FALSE

\* one call of run_transcription: its number, whether a sink was supplied,
\* the statement group it left from and how, the sink as it was at the call
MetricsCall(number, supplied, left_at, how, before) ==
    [ number |-> number, supplied |-> supplied, left_at |-> left_at,
      how |-> how, before |-> before ]
NoMetricsCall == MetricsCall(0, FALSE, "none", "none", {})

MetricsIdle ==
    /\ sm_pc = "idle" /\ sm_metrics = {} /\ stage_metrics = {}
    /\ sm_call = NoMetricsCall

ApiIdle == FetchCacheIdle /\ TimelineIdle /\ HandoffIdle /\ MetricsIdle

ServicesIdle ==
    SaveOutputIdle /\ LocateIdle /\ QueueIdle /\ DeviceIdle /\ SrtIdle /\ ApiIdle

UnitsIdle == PlanIdle /\ ModelCacheIdle /\ MetadataCacheIdle /\ ServicesIdle

WorkerStarted == WorkerFresh /\ ClassifyIdle /\ UnitsIdle

Init ==
    /\ input_files \in Queues
    /\ \/ StartedFrom(input_files)
       \/ Len(input_files) = 1 /\ StartedFrom(<< >>)
    /\ yt_errors = FewErrorTexts
    /\ model_outcomes = PlainModelOutcomes
    /\ t_env = PlainRunEnv
    /\ fs_env = PlainFs
    /\ WorkerStarted

InitYouTube ==
    /\ input_files = << ItemUniverse[2] >>
    /\ StartedFrom(input_files)
    /\ yt_errors = AllErrorTexts
    /\ model_outcomes = AllModelOutcomes
    /\ t_env = FullRunEnv
    /\ fs_env = FullFs
    /\ WorkerStarted

(***************************************************************************)
(* The worker thread: TranscriberApp._run_worker.                          *)
(***************************************************************************)
\* ui_queue.put.  A run of consecutive progress events of one item is kept
\* as one entry: message text and percentage are not modelled.
Put(q, kind, idx) ==
    IF kind = "progress" /\ Len(q) > 0 /\ q[Len(q)] = << kind, idx >>
    THEN q ELSE Append(q, << kind, idx >>)

pending_after_including_failed(files, idx) == SubSeq(files, idx, Len(files))

\* list(input_files[index:]) with the 1-based index of the failed item
pending_after(files, idx) == SubSeq(files, idx + 1, Len(files))

stop_after_error_always(policy) == TRUE

\* run_policy == "stop"
stop_after_error(policy) == policy = "stop"

BatchRunSummary(stopped, pending) ==
    [ total_items |-> Len(input_files),
      success_items |-> Len(outputs'),
      failed_items |-> Len(failures'),
      run_policy |-> run_policy,
      stopped_on_error |-> stopped,
      pending_items |-> Len(pending) ]

\* lines 1007-1028 with a progress event put after the batch_done event
BatchDone_then_progress(q, stopped, pending) ==
    /\ stopped_on_error' = stopped
    /\ pending_items' = pending
    /\ batch_summary' = BatchRunSummary(stopped, pending)
    /\ ui_queue' = Put(Put(q, "batch_done", 0), "progress", index)
    /\ w_pc' = "done"
    /\ index' = index

\* lines 1007-1028: the summary and the batch_done event
BatchDone(q, stopped, pending) ==
    /\ stopped_on_error' = stopped
    /\ pending_items' = pending
    /\ batch_summary' = BatchRunSummary(stopped, pending)
    /\ ui_queue' = Put(q, "batch_done", 0)
    /\ w_pc' = "done"
    /\ index' = index

\* the for statement takes the next item, or ends the loop
NextItem(q) ==
    IF index < Len(input_files)
    THEN /\ index' = index + 1
         /\ w_pc' = "loop"
         /\ ui_queue' = q
         /\ UNCHANGED << stopped_on_error, pending_items, batch_summary >>
    ELSE BatchDone(q, FALSE, << >>)

\* lines 967-994: except (TranscriptionError, Exception)
ItemError(exc) ==
    /\ failures' = Append(failures, << input_files[index], exc.msg >>)
    /\ outputs' = outputs
    /\ LET q == Put(ui_queue, "item_error", index) IN
       IF stop_after_error(run_policy)
       THEN BatchDone(Put(q, "progress", index), TRUE,
                      pending_after(input_files, index))
       ELSE NextItem(q)

\* lines 952-964: the item succeeded
ItemDone(output_path) ==
    /\ outputs' = Append(outputs, output_path)
    /\ failures' = failures
    /\ NextItem(Put(ui_queue, "item_done", index))

\* lines 965-966 and 1029-1030: TranscriptionCancelled ends the run
RunCancelled(exc) ==
    /\ ui_queue' = Put(ui_queue, "cancelled", 0)
    /\ w_pc' = "done"
    /\ UNCHANGED << index, outputs, failures, stopped_on_error, pending_items,
                    batch_summary >>

\* lines 995-1005, the finally clause of an item: the downloaded file is
\* unlinked when download_audio returned it, the download directory is
\* removed, which fails when it is not empty; OSError is swallowed
CleanupItem ==
    \E unlink_fault \in fs_env.faults, rmdir_fault \in fs_env.faults :
        LET unlink_called == downloaded_audio_path /\ "wav" \in yt_files
            files_after == IF unlink_called /\ ~unlink_fault
                           THEN yt_files \ { "wav" } ELSE yt_files
            rmdir_called == yt_download_dir /\ yt_dir_exists
            removed == rmdir_called /\ files_after = {} /\ ~rmdir_fault
        IN  /\ yt_files' = files_after
            /\ yt_dir_exists' = (yt_dir_exists /\ ~removed)
            /\ os_fault_seen' = (\/ os_fault_seen
                                 \/ (unlink_called /\ unlink_fault)
                                 \/ (rmdir_called /\ rmdir_fault))
            /\ yt_download_dir' = FALSE /\ downloaded_audio_path' = FALSE
            /\ fs_env' = fs_env

\* the user presses Cancel (_cancel_transcription) while the worker runs
Cancel ==
    /\ w_pc # "done"
    /\ cancel_event = FALSE
    /\ cancel_event' = TRUE
    /\ UNCHANGED << batchVars, metadata_cache, fetchVars, dlVars, fsVars, tVars,
                    cancel_seen, cVars, uiVars, unitVars >>

\* lines 818-863: loop head, cancel check, item_started, source kind
WorkerLoop ==
    /\ w_pc = "loop"
    /\ IF cancel_event
       THEN /\ cancel_seen' = index
            /\ RunCancelled(TranscriptionCancelled("Transcription was cancelled."))
            /\ UNCHANGED << t_pc >>
       ELSE /\ cancel_seen' = cancel_seen
            /\ ui_queue' = Put(ui_queue, "item_started", index)
            /\ IF is_youtube_item(strip(input_files[index]))
               THEN w_pc' = "yt_meta" /\ t_pc' = t_pc
               ELSE w_pc' = "transcribing" /\ t_pc' = "validate"
            /\ UNCHANGED << index, outputs, failures, stopped_on_error,
                            pending_items, batch_summary >>
    /\ UNCHANGED << input_files, run_policy, yt_errors, model_outcomes,
                    cancel_event,
                    metadata_cache, fetchVars, dlVars, fsVars, t_total, t_idx,
                    segment_items, t_exc, model_calls, tRunVars, cVars, uiVars, unitVars >>

\* lines 813 and 1031-1032: resolving the output directory raises, which
\* is outside the try statement of the items: the error event ends the run
WorkerSetupFails ==
    /\ w_pc = "loop" /\ index = 1 /\ ui_queue = << >>
    /\ ui_queue' = Put(ui_queue, "error", 0)
    /\ w_pc' = "done"
    /\ UNCHANGED << index, outputs, failures, stopped_on_error, pending_items,
                    batch_summary, cancel_seen >>
    /\ UNCHANGED << input_files, run_policy, yt_errors, model_outcomes,
                    cancel_event,
                    metadata_cache, fetchVars, dlVars, fsVars, tVars, cVars,
                    uiVars, unitVars >>

\* lines 866-870: the metadata cache is read; on a miss fetch_video_info is called
WorkerYtMeta ==
    /\ w_pc = "yt_meta"
    /\ IF strip(input_files[index]) \in metadata_cache
       THEN /\ w_pc' = "downloading" /\ dl_pc' = "begin" /\ f_pc' = f_pc
            /\ yt_download_dir' = TRUE
       ELSE /\ w_pc' = "fetching" /\ f_pc' = "begin" /\ dl_pc' = dl_pc
            /\ yt_download_dir' = yt_download_dir
    /\ UNCHANGED << downloaded_audio_path, yt_dir_exists, yt_files, fs_env,
                    os_fault_seen >>
    /\ UNCHANGED << input_files, run_policy, yt_errors, model_outcomes,
                    index, outputs,
                    failures, stopped_on_error, pending_items, ui_queue,
                    batch_summary, cancel_event, metadata_cache, f_client,
                    f_retry, f_wait, f_last_failure, f_exc, dl_strategy,
                    dl_retry, dl_wait, dl_success, dl_last_failure, dl_exc,
                    tVars, cancel_seen, cVars, uiVars, unitVars >>

(***************************************************************************)
(* youtube_service.fetch_video_info.                                       *)
(***************************************************************************)
FetchRaise(exc, last_failure) ==
    /\ f_pc' = "raised" /\ f_exc' = exc /\ f_last_failure' = last_failure
    /\ UNCHANGED << f_client, f_retry, f_wait, metadata_cache >>

\* lines 357-371
FetchBegin ==
    /\ f_pc = "begin"
    /\ IF ~is_youtube_url(input_files[index])
       THEN FetchRaise(TranscriptionError("Invalid YouTube URL."), NoFailure)
       ELSE IF strip(input_files[index]) \in metadata_cache
       THEN /\ f_pc' = "returned"
            /\ UNCHANGED << f_client, f_retry, f_wait, f_last_failure, f_exc,
                            metadata_cache >>
       ELSE /\ f_pc' = "attempt" /\ f_client' = 1 /\ f_retry' = 0
            /\ f_last_failure' = NoFailure
            /\ UNCHANGED << f_wait, f_exc, metadata_cache >>
    /\ UNCHANGED << batchVars, cancel_event, dlVars, fsVars, tVars, cancel_seen, cVars, uiVars, unitVars >>

\* break out of the retry loop: the next client, or lines 458-461
FetchNextClient(last_failure) ==
    IF f_client < Len(ClientStrategies)
    THEN /\ f_pc' = "attempt" /\ f_client' = f_client + 1 /\ f_retry' = 0
         /\ f_last_failure' = last_failure
         /\ UNCHANGED << f_wait, f_exc, metadata_cache >>
    ELSE FetchRaise(TranscriptionError(format_exhausted_error(last_failure)),
                    last_failure)

\* lines 385-390 and 463-476: extract_info gives a dict
FetchAttemptOk ==
    /\ f_pc = "attempt"
    /\ f_pc' = "returned"
    /\ metadata_cache' = metadata_cache \cup { strip(input_files[index]) }
    /\ UNCHANGED << f_client, f_retry, f_wait, f_last_failure, f_exc >>
    /\ UNCHANGED << batchVars, cancel_event, dlVars, fsVars, tVars, cancel_seen, cVars, uiVars, unitVars >>

\* lines 392-399: extract_info gives no dict
FetchAttemptEmpty ==
    /\ f_pc = "attempt"
    /\ FetchNextClient(FailureContext("fetch YouTube metadata",
            ClientStrategies[f_client], ClassificationOf[EMPTY_METADATA_TEXT],
            "Empty metadata response."))
    /\ UNCHANGED << batchVars, cancel_event, dlVars, fsVars, tVars, cancel_seen, cVars, uiVars, unitVars >>

\* lines 400-453: extract_info raises; both except clauses do the same
FetchAttemptFail ==
    /\ f_pc = "attempt"
    /\ \E text \in yt_errors :
        LET classification == ClassificationOf[text]
            last_failure == FailureContext("fetch YouTube metadata",
                ClientStrategies[f_client], classification, text)
            todo == failure_action(classification, f_retry,
                                   MAX_METADATA_RETRIES_PER_CLIENT)
        IN  IF todo = "retry"
            THEN /\ f_pc' = "sleep"
                 /\ f_wait' = retry_delay_seconds(f_retry)
                 /\ f_last_failure' = last_failure
                 /\ UNCHANGED << f_client, f_retry, f_exc, metadata_cache >>
            ELSE IF todo = "next"
            THEN FetchNextClient(last_failure)
            ELSE FetchRaise(
                    TranscriptionError(format_terminal_error(
                        "fetch YouTube metadata", ClientStrategies[f_client],
                        classification, text)),
                    last_failure)
    /\ UNCHANGED << batchVars, cancel_event, dlVars, fsVars, tVars, cancel_seen, cVars, uiVars, unitVars >>

\* lines 413-414: time.sleep returns, continue
FetchSleepDone ==
    /\ f_pc = "sleep"
    /\ f_pc' = "attempt" /\ f_retry' = f_retry + 1 /\ f_wait' = 0
    /\ UNCHANGED << f_client, f_last_failure, f_exc, metadata_cache >>
    /\ UNCHANGED << batchVars, cancel_event, dlVars, fsVars, tVars, cancel_seen, cVars, uiVars, unitVars >>

\* gui.py lines 870-912: fetch_video_info returned or raised
WorkerAfterFetch ==
    /\ w_pc = "fetching"
    /\ f_pc \in {"returned", "raised"}
    /\ IF f_pc = "returned"
       THEN /\ \E too_long \in BOOLEAN :
                ui_queue' = IF too_long THEN Put(ui_queue, "progress", index)
                            ELSE ui_queue
            /\ w_pc' = "downloading" /\ dl_pc' = "begin"
            /\ yt_download_dir' = TRUE
            /\ UNCHANGED << index, outputs, failures, stopped_on_error,
                            pending_items, batch_summary,
                            downloaded_audio_path, yt_dir_exists, yt_files,
                            fs_env, os_fault_seen >>
       ELSE /\ ItemError(f_exc)
            /\ CleanupItem
            /\ dl_pc' = dl_pc
    /\ f_pc' = "idle" /\ f_client' = 1 /\ f_retry' = 0 /\ f_wait' = 0
    /\ f_last_failure' = NoFailure /\ f_exc' = NoExc
    /\ UNCHANGED << input_files, run_policy, yt_errors, model_outcomes,
                    cancel_event,
                    metadata_cache, dl_strategy, dl_retry, dl_wait, dl_success,
                    dl_last_failure, dl_exc, tVars, cancel_seen, cVars, uiVars, unitVars >>


(***************************************************************************)
(* youtube_service.download_audio.                                         *)
(***************************************************************************)
DlOthersUnchanged ==
    UNCHANGED << input_files, run_policy, yt_errors, model_outcomes,
                 w_pc, index, outputs,
                 failures, stopped_on_error, pending_items, batch_summary,
                 cancel_event, metadata_cache, fetchVars, tVars, cVars, uiVars, unitVars >>

FsKeep == UNCHANGED fsVars

\* the files of the download directory change, nothing else of the kind
FilesBecome(files) ==
    /\ yt_files' = files
    /\ UNCHANGED << yt_download_dir, downloaded_audio_path, yt_dir_exists,
                    fs_env, os_fault_seen >>

DlRaise(exc, last_failure) ==
    /\ dl_pc' = "raised" /\ dl_exc' = exc /\ dl_last_failure' = last_failure
    /\ UNCHANGED << dl_strategy, dl_retry, dl_wait, dl_success >>

\* lines 485-557
DlBegin ==
    /\ dl_pc = "begin"
    /\ IF ~is_youtube_url(input_files[index])
       THEN /\ DlRaise(TranscriptionError("Invalid YouTube URL."), NoFailure)
            /\ FsKeep
       ELSE \E ffmpeg_found \in BOOLEAN :
            IF ~ffmpeg_found
            THEN /\ DlRaise(TranscriptionError(
                    "ffmpeg was not found in PATH. Install ffmpeg and retry."),
                    NoFailure)
                 /\ FsKeep
            ELSE /\ dl_pc' = "attempt" /\ dl_strategy' = 1 /\ dl_retry' = 0
                 /\ dl_success' = FALSE /\ dl_last_failure' = NoFailure
                 /\ yt_dir_exists' = TRUE
                 /\ UNCHANGED << dl_wait, dl_exc, yt_download_dir,
                                 downloaded_audio_path, yt_files, fs_env,
                                 os_fault_seen >>
    /\ UNCHANGED << ui_queue, cancel_seen >>
    /\ DlOthersUnchanged

\* lines 562-585: _check_cancel at the top of an attempt, outside the try
DlAttempt ==
    /\ dl_pc = "attempt"
    /\ IF cancel_event
       THEN /\ cancel_seen' = index
            /\ DlRaise(YoutubeDownloadCancelled(CANCEL_MESSAGE), dl_last_failure)
            /\ ui_queue' = ui_queue
       ELSE /\ cancel_seen' = cancel_seen
            /\ ui_queue' = Put(ui_queue, "progress", index)
            /\ dl_pc' = "extract"
            /\ UNCHANGED << dl_strategy, dl_retry, dl_wait, dl_success,
                            dl_last_failure, dl_exc >>
    /\ FsKeep
    /\ DlOthersUnchanged

\* lines 496-516 with 595-599: the progress hook runs inside extract_info; a
\* cancel it raises reaches the handler as _YoutubeDownloadCancelled or as a
\* DownloadError quoting CANCEL_MESSAGE
DlProgressHook ==
    /\ dl_pc = "extract"
    /\ IF cancel_event
       THEN /\ cancel_seen' = index
            /\ DlRaise(TranscriptionCancelled(TRANSCRIPTION_CANCELLED_MESSAGE),
                       dl_last_failure)
            /\ ui_queue' = ui_queue
            /\ \E partial \in fs_env.partial :
                FilesBecome(IF partial THEN yt_files \cup { "part" }
                            ELSE yt_files)
       ELSE /\ cancel_seen' = cancel_seen
            /\ ui_queue' = Put(ui_queue, "progress", index)
            /\ UNCHANGED dlVars
            /\ FsKeep
    /\ DlOthersUnchanged

\* lines 587-594 and 695-696: extract_info returns
DlExtractOk ==
    /\ dl_pc = "extract"
    /\ dl_pc' = "finalize" /\ dl_success' = TRUE
    /\ \E produced \in BOOLEAN :
        FilesBecome(IF produced THEN (yt_files \ { "part" }) \cup { "wav" }
                    ELSE yt_files \ { "part" })
    /\ UNCHANGED << dl_strategy, dl_retry, dl_wait, dl_last_failure, dl_exc >>
    /\ UNCHANGED << ui_queue, cancel_seen >>
    /\ DlOthersUnchanged

\* break out of the retry loop: the next strategy, or lines 698-701
DlNextStrategy(last_failure) ==
    IF dl_strategy < Len(DownloadStrategies)
    THEN /\ dl_pc' = "attempt" /\ dl_strategy' = dl_strategy + 1
         /\ dl_retry' = 0 /\ dl_last_failure' = last_failure
         /\ ui_queue' = Put(ui_queue, "progress", index)
         /\ UNCHANGED << dl_wait, dl_success, dl_exc >>
    ELSE /\ DlRaise(TranscriptionError(format_exhausted_error(last_failure)),
                    last_failure)
         /\ ui_queue' = ui_queue

\* lines 597-693: extract_info raises; both except clauses do the same
DlExtractFail ==
    /\ dl_pc = "extract"
    /\ \E text \in yt_errors :
        LET classification == ClassificationOf[text]
            last_failure == FailureContext("download audio from YouTube",
                DownloadStrategies[dl_strategy], classification, text)
            todo == failure_action(classification, dl_retry,
                                   MAX_DOWNLOAD_RETRIES_PER_STRATEGY)
        IN  IF todo = "retry"
            THEN /\ dl_pc' = "sleep"
                 /\ dl_wait' = retry_delay_seconds(dl_retry)
                 /\ dl_last_failure' = last_failure
                 /\ ui_queue' = Put(ui_queue, "progress", index)
                 /\ UNCHANGED << dl_strategy, dl_retry, dl_success, dl_exc >>
            ELSE IF todo = "next"
            THEN DlNextStrategy(last_failure)
            ELSE /\ DlRaise(
                        TranscriptionError(format_terminal_error(
                            "download audio from YouTube",
                            DownloadStrategies[dl_strategy], classification,
                            text)),
                        last_failure)
                 /\ ui_queue' = ui_queue
    /\ \E partial \in fs_env.partial :
        FilesBecome(IF partial THEN yt_files \cup { "part" } ELSE yt_files)
    /\ cancel_seen' = cancel_seen
    /\ DlOthersUnchanged

sleep_slice_whole_wait(remaining) == remaining

\* time.sleep(min(0.2, remaining))
sleep_slice(remaining) == Min(SLEEP_SLICE_MS, remaining)

\* _sleep_with_cancel, one turn of its loop (lines 72-77), with lines
\* 622-628: cancel check, end of the wait, or one slice of sleep
DlSleepTick ==
    /\ dl_pc = "sleep"
    /\ IF cancel_event
       THEN /\ cancel_seen' = index
            /\ DlRaise(TranscriptionCancelled(TRANSCRIPTION_CANCELLED_MESSAGE),
                       dl_last_failure)
       ELSE /\ cancel_seen' = cancel_seen
            /\ IF dl_wait <= 0
               THEN /\ dl_pc' = "attempt" /\ dl_retry' = dl_retry + 1
                    /\ UNCHANGED << dl_wait >>
               ELSE /\ dl_wait' = dl_wait - sleep_slice(dl_wait)
                    /\ UNCHANGED << dl_pc, dl_retry >>
            /\ UNCHANGED << dl_strategy, dl_success, dl_last_failure, dl_exc >>
    /\ ui_queue' = ui_queue
    /\ FsKeep
    /\ DlOthersUnchanged

\* lines 703-732: _check_cancel outside any try, then the produced file is
\* looked up
DlFinalize ==
    /\ dl_pc = "finalize"
    /\ IF cancel_event
       THEN /\ cancel_seen' = index
            /\ DlRaise(YoutubeDownloadCancelled(CANCEL_MESSAGE), dl_last_failure)
            /\ ui_queue' = ui_queue
       ELSE /\ cancel_seen' = cancel_seen
            /\ ui_queue' = Put(ui_queue, "progress", index)
            /\ IF "wav" \in yt_files
               THEN /\ dl_pc' = "returned"
                    /\ UNCHANGED << dl_strategy, dl_retry, dl_wait, dl_success,
                                    dl_last_failure, dl_exc >>
               ELSE DlRaise(TranscriptionError(
                        "Download finished, but no audio file was found for transcription."),
                        dl_last_failure)
    /\ FsKeep
    /\ DlOthersUnchanged

\* gui.py lines 907-926 and 965-1005: download_audio returned or raised
WorkerAfterDownload ==
    /\ w_pc = "downloading"
    /\ dl_pc \in {"returned", "raised"}
    /\ IF dl_pc = "returned"
       THEN /\ w_pc' = "transcribing" /\ t_pc' = "validate"
            /\ downloaded_audio_path' = TRUE
            /\ UNCHANGED << index, outputs, failures, stopped_on_error,
                            pending_items, ui_queue, batch_summary,
                            yt_download_dir, yt_dir_exists, yt_files, fs_env,
                            os_fault_seen >>
       ELSE /\ IF dl_exc.type = "TranscriptionCancelled"
               THEN RunCancelled(dl_exc)
               ELSE ItemError(dl_exc)
            /\ CleanupItem
            /\ t_pc' = t_pc
    /\ dl_pc' = "idle" /\ dl_strategy' = 1 /\ dl_retry' = 0 /\ dl_wait' = 0
    /\ dl_success' = FALSE /\ dl_last_failure' = NoFailure /\ dl_exc' = NoExc
    /\ UNCHANGED << input_files, run_policy, yt_errors, model_outcomes,
                    cancel_event,
                    metadata_cache, fetchVars, t_total, t_idx, segment_items,
                    t_exc, model_calls, tRunVars, cancel_seen, cVars, uiVars, unitVars >>


(***************************************************************************)
(* transcription_service.run_transcription and _transcribe_segments.       *)
(***************************************************************************)
FFMPEG_NOT_FOUND == "ffmpeg was not found in PATH. Install ffmpeg and retry."

\* how far lines 504-515 get: the exception raised (NoExc when none), the
\* kinds of work done, and the resolved device
Checked(exc, work, device) == [ exc |-> exc, work |-> work, device |-> device ]

validate_settings_before_ffmpeg(path, args, input) ==
    LET format == validate_and_detect_input_format(
                    path, input.exists, input.extension,
                    args.selected_input_format)
        device == resolve_compute_device(args.compute_device, input.hw)
    IN  IF ~format.ok
        THEN Checked(TranscriptionError(format.value),
                     { "progress", "validate" }, "")
        ELSE IF ~device.ok
        THEN Checked(TranscriptionError(device.value),
                     { "progress", "validate" }, "")
        ELSE IF ~input.ffmpeg
        THEN Checked(TranscriptionError(FFMPEG_NOT_FOUND),
                     { "progress", "validate" }, "")
        ELSE Checked(NoExc, { "progress", "validate" }, device.value.name)

\* lines 504-515: the ffmpeg lookup, then the first progress report, the
\* validation of the input, the device, the second progress report
validate_settings(path, args, input) ==
    LET format == validate_and_detect_input_format(
                    path, input.exists, input.extension,
                    args.selected_input_format)
        device == resolve_compute_device(args.compute_device, input.hw)
    IN  IF ~input.ffmpeg
        THEN Checked(TranscriptionError(FFMPEG_NOT_FOUND), {}, "")
        ELSE IF ~format.ok
        THEN Checked(TranscriptionError(format.value),
                     { "progress", "validate" }, "")
        ELSE IF ~device.ok
        THEN Checked(TranscriptionError(device.value),
                     { "progress", "validate" }, "")
        ELSE Checked(NoExc, { "progress", "validate" }, device.value.name)

TOthersUnchanged ==
    UNCHANGED << input_files, run_policy, yt_errors, model_outcomes,
                 w_pc, index, outputs,
                 failures, stopped_on_error, pending_items, batch_summary,
                 cancel_event, metadata_cache, fetchVars, dlVars, fsVars, cVars, uiVars, unitVars >>

\* the call has done these kinds of work
Did(kinds) == t_work' = t_work \cup kinds

TKeep == UNCHANGED << t_env, t_input, t_device, t_plan >>

\* a progress value: whole percents are fractions over 1
Fraction(num, den) == [ num |-> num, den |-> den ]
Percent(whole) == Fraction(whole, 1)
AtMost(a, b) == a.num * b.den <= b.num * a.den

\* _report, lines 113-116: bounded = max(0.0, min(100.0, progress))
bounded_progress(progress) ==
    IF AtMost(progress, Percent(0)) THEN Percent(0)
    ELSE IF AtMost(Percent(100), progress) THEN Percent(100)
    ELSE progress

\* line 315 with idx in the place of idx - 1
start_progress_of_end(idx, total_segments) ==
    Fraction(24 * Max(total_segments, 1) + idx * 66, Max(total_segments, 1))

\* line 315: 24 + ((idx - 1) / max(total_segments, 1)) * 66
start_progress(idx, total_segments) ==
    Fraction(24 * Max(total_segments, 1) + (idx - 1) * 66,
             Max(total_segments, 1))

\* the call has reported these progress values, in this order
Reported(values) ==
    t_reports' = t_reports
        \o [ k \in 1..Len(values) |-> bounded_progress(values[k]) ]

\* lines 646-656: an exception leaves run_transcription through its finally
\* clause, which removes the temporary directory unless it is to be kept
TRaiseFrom(exc, args) ==
    /\ t_pc' = "raised" /\ t_exc' = exc
    /\ t_args' = args
    /\ temp_dir' = temp_dir_after_exit(args.keep_segments, temp_dir)
    /\ UNCHANGED << t_total, t_idx, segment_items, textVars, model_calls >>

TRaise(exc) == TRaiseFrom(exc, t_args)

\* transcription_service._check_cancel
TCancelled ==
    /\ cancel_seen' = index
    /\ TRaise(TranscriptionCancelled("Transcription was cancelled."))

\* the next statement group; the return at line 645 passes the finally clause
TStep(next_pc) ==
    /\ t_pc' = next_pc
    /\ temp_dir' = IF next_pc = "returned"
                   THEN temp_dir_after_exit(t_args.keep_segments, temp_dir)
                   ELSE temp_dir
    /\ UNCHANGED << t_total, t_idx, segment_items, textVars, t_exc,
                    model_calls, t_args >>

\* lines 497-517: ffmpeg lookup, validation, device, cancel check
TValidate ==
    /\ t_pc = "validate"
    /\ \E args \in t_env.args, ffmpeg \in t_env.ffmpeg,
          exists \in t_env.exists, extension \in t_env.extensions,
          hw \in t_env.hardware, duration \in t_env.durations :
        LET input == RunInput(ffmpeg, exists, extension, hw, duration)
            checked == validate_settings(input_files[index], args, input)
        IN  /\ t_input' = input
            /\ t_work' = t_work \cup checked.work
            /\ Reported(IF "progress" \notin checked.work THEN << >>
                        ELSE IF checked.exc # NoExc THEN << Percent(5) >>
                        ELSE << Percent(5), Percent(8) >>)
            /\ t_device' = checked.device
            /\ ui_queue' = IF "progress" \in checked.work
                           THEN Put(ui_queue, "progress", index)
                           ELSE ui_queue
            /\ IF checked.exc # NoExc
               THEN TRaiseFrom(checked.exc, args) /\ cancel_seen' = cancel_seen
               ELSE IF cancel_event
               THEN /\ cancel_seen' = index
                    /\ TRaiseFrom(TranscriptionCancelled(
                            "Transcription was cancelled."), args)
               ELSE /\ cancel_seen' = cancel_seen
                    /\ t_pc' = "analyze" /\ t_args' = args
                    /\ UNCHANGED << t_total, t_idx, segment_items, textVars, t_exc,
                                    model_calls, temp_dir >>
    /\ UNCHANGED << t_env, t_plan >>
    /\ TOthersUnchanged

\* lines 519-551 and 265-284: duration probe, plan, and when the plan says
\* to segment the start of _extract_audio_and_split
TAnalyze ==
    /\ t_pc = "analyze"
    /\ ui_queue' = Put(ui_queue, "progress", index)
    /\ Reported(<< Percent(10) >>)
    /\ LET plan == build_segmentation_plan(
                    t_input.duration, t_args.segment_time_sec, t_device)
       IN   /\ t_plan' = plan
            /\ IF ~plan.should_segment
               THEN /\ t_pc' = "model" /\ t_total' = 1
                    /\ Did({"probe", "progress"})
                    /\ UNCHANGED << t_idx, segment_items, textVars, t_exc, model_calls,
                                    t_args, temp_dir, cancel_seen >>
               ELSE IF cancel_event
               THEN TCancelled /\ Did({"probe", "progress"})
               ELSE /\ t_pc' = "split_run" /\ temp_dir' = "present"
                    /\ Did({"probe", "progress", "mkdir", "split"})
                    /\ UNCHANGED << t_total, t_idx, segment_items, textVars, t_exc,
                                    model_calls, t_args, cancel_seen >>
    /\ UNCHANGED << t_env, t_input, t_device >>
    /\ TOthersUnchanged

\* lines 285-295 and 559: ffmpeg has run
TSplitDone ==
    /\ t_pc = "split_run"
    /\ \/ /\ TRaise(TranscriptionError("ffmpeg failed during segmentation. "))
          /\ cancel_seen' = cancel_seen
       \/ IF cancel_event THEN TCancelled
          ELSE /\ cancel_seen' = cancel_seen
               /\ \E n \in 0..MaxSegments :
                    IF n = 0
                    THEN TRaise(TranscriptionError(
                            "Failed to generate audio segments."))
                    ELSE /\ t_pc' = "model" /\ t_total' = n
                         /\ UNCHANGED << t_idx, segment_items, textVars, t_exc,
                                         model_calls, t_args, temp_dir >>
    /\ ui_queue' = ui_queue
    /\ Did({}) /\ Reported(<< >>)
    /\ TKeep
    /\ TOthersUnchanged

\* lines 561-567: cancel check, then _get_or_load_model is called
TModel ==
    /\ t_pc = "model"
    /\ IF cancel_event
       THEN TCancelled /\ Did({})
       ELSE /\ cancel_seen' = cancel_seen
            /\ Did({"model"})
            /\ TStep("loading")
    /\ ui_queue' = ui_queue
    /\ Reported(<< >>)
    /\ TKeep
    /\ TOthersUnchanged

\* lines 563-580: _get_or_load_model returns the model or raises
TModelLoaded ==
    /\ t_pc = "loading"
    /\ \E loaded \in BOOLEAN :
        IF loaded
        THEN /\ TStep("transcribe")
             /\ ui_queue' = Put(ui_queue, "progress", index)
             /\ Reported(<< Percent(20) >>)
        ELSE /\ TRaise(Exc("RuntimeError", "model could not be loaded"))
             /\ ui_queue' = ui_queue
             /\ Reported(<< >>)
    /\ cancel_seen' = cancel_seen
    /\ Did({})
    /\ TKeep
    /\ TOthersUnchanged

\* lines 307-311
TTranscribeBegin ==
    /\ t_pc = "transcribe"
    /\ IF cancel_event THEN TCancelled
       ELSE /\ cancel_seen' = cancel_seen
            /\ t_pc' = "segment" /\ t_idx' = 1 /\ segment_items' = << >>
            /\ full_text_parts' = << >> /\ full_text' = full_text
            /\ UNCHANGED << t_total, t_exc, model_calls, t_args, temp_dir >>
    /\ ui_queue' = ui_queue
    /\ Did({}) /\ Reported(<< >>)
    /\ TKeep
    /\ TOthersUnchanged

SegmentResult(idx, text, error) ==
    [ index |-> idx, text |-> text, error |-> error ]

segment_failure_aborts(items, calls, idx, total, raised, value) ==
    IF raised
    THEN /\ t_pc' = "raised" /\ t_exc' = Exc("RuntimeError", value)
         /\ model_calls' = Append(calls, << idx, raised, value >>)
         /\ temp_dir' = temp_dir_after_exit(t_args.keep_segments, temp_dir)
         /\ UNCHANGED << segment_items, textVars, t_idx, t_total >>
    ELSE /\ segment_items' = Append(items, SegmentResult(idx, strip(value), None))
         /\ full_text_parts' = Append(full_text_parts, strip(value))
         /\ full_text' = full_text
         /\ model_calls' = Append(calls, << idx, raised, value >>)
         /\ t_idx' = idx + 1
         /\ t_pc' = IF idx < total THEN "segment" ELSE "joined"
         /\ UNCHANGED << t_total, t_exc, temp_dir >>

\* lines 328-418, one turn of the loop after its cancel check: the model
\* call and the SegmentResult it leaves
segment_step(items, calls, idx, total, raised, value) ==
    /\ segment_items' =
        Append(items,
               IF raised THEN SegmentResult(idx, "", value)
               ELSE SegmentResult(idx, strip(value), None))
    /\ full_text_parts' =
        Append(full_text_parts, IF raised THEN "" ELSE strip(value))
    /\ full_text' = full_text
    /\ model_calls' = Append(calls, << idx, raised, value >>)
    /\ t_idx' = idx + 1
    /\ t_pc' = IF idx < total THEN "segment" ELSE "joined"
    /\ UNCHANGED << t_total, t_exc, temp_dir >>

\* lines 314-332 without the cancel check of line 313
TSegment_without_cancel_check ==
    /\ t_pc = "segment"
    /\ cancel_seen' = cancel_seen
    /\ ui_queue' = Put(ui_queue, "progress", index)
    /\ Did({"progress", "transcribe"})
    /\ Reported(<< start_progress(t_idx, t_total) >>)
    /\ TStep("model_call")
    /\ TKeep
    /\ TOthersUnchanged

\* lines 313-332: the cancel check of a segment, its progress report, and
\* model.transcribe is called
TSegment ==
    /\ t_pc = "segment"
    /\ IF cancel_event
       THEN TCancelled /\ ui_queue' = ui_queue /\ Did({}) /\ Reported(<< >>)
       ELSE /\ cancel_seen' = cancel_seen
            /\ ui_queue' = Put(ui_queue, "progress", index)
            /\ Did({"progress", "transcribe"})
            /\ Reported(<< start_progress(t_idx, t_total) >>)
            /\ TStep("model_call")
    /\ TKeep
    /\ TOthersUnchanged

\* lines 332-418: model.transcribe returns or raises
TSegmentDone ==
    /\ t_pc = "model_call"
    /\ \E outcome \in model_outcomes :
            segment_step(segment_items, model_calls, t_idx, t_total,
                         outcome[1], outcome[2])
    /\ t_args' = t_args
    /\ cancel_seen' = cancel_seen
    /\ ui_queue' = ui_queue
    /\ Did({}) /\ Reported(<< >>)
    /\ TKeep
    /\ TOthersUnchanged

\* "\n".join(parts)
RECURSIVE join_lines(_)
join_lines(parts) ==
    IF parts = << >> THEN ""
    ELSE IF Len(parts) = 1 THEN parts[1]
    ELSE parts[1] \o "\n" \o join_lines(Tail(parts))

\* line 421 without its strip()
joined_full_text_untrimmed(parts) == join_lines(parts)

\* line 421: full_text = "\n".join(full_text_parts).strip()
joined_full_text(parts) == strip(join_lines(parts))

\* lines 420-435 and 596-632
TJoined ==
    /\ t_pc = "joined"
    /\ IF cancel_event THEN TCancelled
       ELSE /\ cancel_seen' = cancel_seen
            /\ t_pc' = "save"
            /\ full_text' = joined_full_text(full_text_parts)
            /\ UNCHANGED << t_total, t_idx, segment_items, t_exc, model_calls,
                            t_args, temp_dir, full_text_parts >>
    /\ ui_queue' = ui_queue
    /\ Did({}) /\ Reported(<< >>)
    /\ TKeep
    /\ TOthersUnchanged

\* lines 634-645 and 438-470: cancel check, _save_output, which makes the
\* output directory and then picks the exporter of the format
TSave ==
    /\ t_pc = "save"
    /\ IF cancel_event
       THEN TCancelled /\ ui_queue' = ui_queue /\ Did({}) /\ Reported(<< >>)
       ELSE LET normalized_output_format == lower(strip(t_args.output_format))
            IN  /\ cancel_seen' = cancel_seen
                /\ ui_queue' = Put(ui_queue, "progress", index)
                /\ IF normalized_output_format \in EXPORT_FORMATS
                   THEN /\ TStep("returned")
                        /\ Did({"progress", "output_dir", "export"})
                        /\ Reported(<< Percent(95), Percent(100) >>)
                   ELSE /\ TRaise(TranscriptionError(
                                "Unsupported output format: "
                                \o normalized_output_format))
                        /\ Did({"progress", "output_dir"})
                        /\ Reported(<< Percent(95) >>)
    /\ TKeep
    /\ TOthersUnchanged

\* str(output_path) of the item
OutputPath(item) == item \o "_transcript.txt"

\* gui.py lines 927-1005: run_transcription returned or raised
WorkerAfterTranscription ==
    /\ w_pc = "transcribing"
    /\ t_pc \in {"returned", "raised"}
    /\ IF t_pc = "returned"
       THEN ItemDone(OutputPath(input_files[index]))
       ELSE IF t_exc.type = "TranscriptionCancelled"
       THEN RunCancelled(t_exc)
       ELSE ItemError(t_exc)
    /\ t_pc' = "idle" /\ t_total' = 0 /\ t_idx' = 0 /\ segment_items' = << >>
    /\ t_exc' = NoExc /\ model_calls' = << >>
    /\ t_args' = NoRunArgs /\ t_input' = NoRunInput
    /\ t_device' = "" /\ t_plan' = NoPlan
    /\ temp_dir' = "absent" /\ t_work' = {} /\ t_reports' = << >>
    /\ full_text_parts' = << >> /\ full_text' = ""
    /\ CleanupItem
    /\ UNCHANGED << input_files, run_policy, yt_errors, model_outcomes,
                    cancel_event, t_env,
                    metadata_cache, fetchVars, dlVars, cancel_seen, cVars, uiVars, unitVars >>

(***************************************************************************)
(* The UI thread: TranscriberApp._process_queue on the event that ends     *)
(* the run.                                                                *)
(***************************************************************************)
\* QueueService.retain_items comparing the items as they are
retain_items_case_sensitive(items, allowed_lower_values) ==
    SelectFrom(items, allowed_lower_values)

\* QueueService.retain_items
RECURSIVE retain_items(_, _)
retain_items(items, allowed_lower_values) ==
    IF items = << >> THEN << >>
    ELSE (IF lower(Head(items)) \in allowed_lower_values
          THEN << Head(items) >> ELSE << >>)
         \o retain_items(Tail(items), allowed_lower_values)

\* gui.py lines 1090-1096
retained_paths(failed, pending, stopped) ==
    { lower(failed[k][1]) : k \in 1..Len(failed) }
    \cup (IF stopped THEN { lower(pending[k]) : k \in 1..Len(pending) } ELSE {})

\* gui.py lines 1083-1148 for batch_done and 1149-1155 for cancelled
ProcessFinalEvent ==
    /\ w_pc = "done" /\ ~ui_handled
    /\ ui_handled' = TRUE
    /\ active_queue_mode' = FALSE
    /\ IF ui_queue[Len(ui_queue)][1] = "batch_done"
       THEN /\ last_failed_items' =
                    [ k \in 1..Len(failures) |-> failures[k][1] ]
            /\ \E retained \in { retained_paths(failures, pending_items,
                                                 stopped_on_error) } :
                    file_queue' = IF active_queue_mode
                                  THEN retain_items(file_queue, retained)
                                  ELSE file_queue
       ELSE UNCHANGED << file_queue, last_failed_items >>
    /\ UNCHANGED << batchVars, cancel_event, metadata_cache, fetchVars, dlVars,
                    fsVars, tVars, cancel_seen, cVars, unitVars >>

Next ==
    \/ Cancel
    \/ ProcessFinalEvent
    \/ WorkerLoop \/ WorkerSetupFails \/ WorkerYtMeta \/ WorkerAfterFetch
    \/ WorkerAfterDownload \/ WorkerAfterTranscription
    \/ FetchBegin \/ FetchAttemptOk \/ FetchAttemptEmpty \/ FetchAttemptFail
    \/ FetchSleepDone
    \/ DlBegin \/ DlAttempt \/ DlProgressHook \/ DlExtractOk \/ DlExtractFail
    \/ DlSleepTick \/ DlFinalize
    \/ TValidate \/ TAnalyze \/ TSplitDone \/ TModel \/ TModelLoaded
    \/ TTranscribeBegin \/ TSegment \/ TSegmentDone \/ TJoined \/ TSave

Spec == Init /\ [][Next]_vars

SpecYouTube == InitYouTube /\ [][Next]_vars

\* the steps of fetch_video_info and of download_audio
FetchStep ==
    \/ FetchBegin \/ FetchAttemptOk \/ FetchAttemptEmpty \/ FetchAttemptFail
    \/ FetchSleepDone

DownloadStep ==
    \/ DlBegin \/ DlAttempt \/ DlProgressHook \/ DlExtractOk \/ DlExtractFail
    \/ DlSleepTick \/ DlFinalize

\* the steps of run_transcription
TranscriptionStep ==
    \/ TValidate \/ TAnalyze \/ TSplitDone \/ TModel \/ TModelLoaded
    \/ TTranscribeBegin \/ TSegment \/ TSegmentDone \/ TJoined \/ TSave

\* one YouTube item with every diagnostic text of the extractor, on the
\* machine and with the settings of the batch runs
InitYouTubeFair ==
    /\ input_files = << ItemUniverse[2] >>
    /\ StartedFrom(input_files)
    /\ yt_errors = AllErrorTexts
    /\ model_outcomes = PlainModelOutcomes
    /\ t_env = PlainRunEnv
    /\ fs_env = PlainFs
    /\ WorkerStarted

\* the worker thread is scheduled, extract_info, ffmpeg and the model come
\* back and time.sleep returns: a call that can go on does go on
SpecYouTubeFair ==
    /\ InitYouTubeFair /\ [][Next]_vars
    /\ WF_vars(FetchStep) /\ WF_vars(DownloadStep)
    /\ WF_vars(TranscriptionStep)

(***************************************************************************)
(* _classify_error on its own: one call per diagnostic text.               *)
(***************************************************************************)
\* diagnostic texts as yt-dlp words them, one per category and one without
\* any marker
ErrorFragments ==
    { "FFmpeg not found", "Sign in to confirm your age", "Geo-Restricted",
      "This video is private", "HTTP Error 429: Too Many Requests",
      "Connection Reset by peer", "HTTP Error 503: Service Unavailable",
      "Requested format is not available", "HTTP Error 403: Forbidden",
      "Something odd happened", "" }

\* a text, or two texts in one message
ClassifyInputs ==
    ErrorFragments \cup
    { a \o "; " \o b : a \in ErrorFragments \ {""}, b \in ErrorFragments \ {""} }

InitClassify ==
    /\ input_files = << ItemUniverse[2] >>
    /\ StartedFrom(input_files)
    /\ yt_errors = AllErrorTexts
    /\ model_outcomes = AllModelOutcomes
    /\ t_env = FullRunEnv
    /\ fs_env = FullFs
    /\ WorkerFresh /\ run_policy = "continue"
    /\ c_pc = "call" /\ c_text \in ClassifyInputs /\ c_result = NoClassification
    /\ UnitsIdle

\* lines 137-318
Classify ==
    /\ c_pc = "call"
    /\ c_result' = classify_error(c_text)
    /\ c_pc' = "done"
    /\ UNCHANGED << c_text, uiVars, batchVars, cancel_event, metadata_cache, fetchVars,
                    dlVars, fsVars, tVars, cancel_seen, unitVars >>

NextClassify == Classify

SpecClassify == InitClassify /\ [][NextClassify]_vars

(***************************************************************************)
(* transcription_service._build_segmentation_plan called on its own.       *)
(***************************************************************************)
\* the batch worker has not started and no other unit is in use
MainIdle ==
    /\ input_files = << ItemUniverse[2] >>
    /\ StartedFrom(input_files)
    /\ yt_errors = AllErrorTexts
    /\ model_outcomes = AllModelOutcomes
    /\ t_env = FullRunEnv
    /\ fs_env = FullFs
    /\ WorkerFresh /\ run_policy = "continue"
    /\ ClassifyIdle

\* durations in milliseconds around the thresholds of 15, 60 and 120 minutes
PlanDurations ==
    { NoDuration, 1, 900 * 1000, 900 * 1000 + 1, 3600 * 1000 - 1, 3600 * 1000,
      7200 * 1000 - 1, 7200 * 1000, 9000 * 1000 }

\* requested chunk lengths, some outside the clamp range
PlanRequests ==
    { 0 - 5, 0, 1, 60, 90, 91, 120, 121, 180, 239, 240, 300, 600, 601, 1000 }

\* the devices _resolve_compute_device can return
PlanDevices == { "cpu", "cuda", "mps" }

InitPlan ==
    /\ MainIdle
    /\ p_pc = "call"
    /\ p_duration \in PlanDurations
    /\ p_requested \in PlanRequests
    /\ p_device \in PlanDevices
    /\ p_plan = NoPlan
    /\ ModelCacheIdle /\ MetadataCacheIdle /\ ServicesIdle

\* lines 210-254
BuildPlan ==
    /\ p_pc = "call"
    /\ p_plan' = build_segmentation_plan(p_duration, p_requested, p_device)
    /\ p_pc' = "done"
    /\ UNCHANGED << p_duration, p_requested, p_device, batchVars, cancel_event,
                    metadata_cache, fetchVars, dlVars, fsVars, tVars, cancel_seen,
                    cVars, uiVars, mcVars, mdVars, serviceVars >>

NextPlan == BuildPlan

SpecPlan == InitPlan /\ [][NextPlan]_vars

(***************************************************************************)
(* transcription_service._get_or_load_model and clear_model_cache called   *)
(* from several threads.  The two assignments that empty or fill the cache *)
(* are one step: they are made with the lock held and every access to the  *)
(* two globals is made with the lock held.                                 *)
(***************************************************************************)
InitModelCache ==
    MainIdle /\ PlanIdle /\ ModelCacheIdle /\ MetadataCacheIdle /\ ServicesIdle

McOthersUnchanged ==
    UNCHANGED << batchVars, cancel_event, metadata_cache, fetchVars, dlVars, fsVars,
                 tVars, cancel_seen, cVars, uiVars, planVars, mdVars, serviceVars >>

\* the history takes an event
Logged(e) ==
    /\ mc_prev' = [ mc_prev EXCEPT ![e[2]] = e[1] ]
    /\ mc_last_change' = IF IsCacheChange(e) THEN e ELSE mc_last_change

McCalls == { Acquire(k, r) : k \in CacheKeys, r \in BOOLEAN } \cup { ClearCall }

\* lines 73-81 and 103-104: a thread enters one of the two functions
McCall(t) ==
    /\ mc_pc[t] \in { "idle", "returned" }
    /\ mc_calls < MaxCalls
    /\ \E call \in McCalls : mc_call' = [ mc_call EXCEPT ![t] = call ]
    /\ mc_calls' = mc_calls + 1
    /\ mc_overlap' =
        (mc_overlap \/ \E u \in Threads : mc_pc[u] \in { "wait_lock", "locked" })
    /\ mc_pc' = [ mc_pc EXCEPT ![t] = "wait_lock" ]
    /\ mc_ret' = [ mc_ret EXCEPT ![t] = NoRet ]
    /\ mc_local' = [ mc_local EXCEPT ![t] = 0 ]
    /\ UNCHANGED << mc_key, mc_instance, mc_lock, mc_todo, mc_next,
                    mc_last_change, mc_prev >>
    /\ McOthersUnchanged

\* lines 83-94 and 106: the lock is taken; _get_or_load_model looks at the
\* cache
McLock(t) ==
    /\ mc_pc[t] = "wait_lock"
    /\ lock_free(mc_lock)
    /\ mc_lock' = t
    /\ mc_pc' = [ mc_pc EXCEPT ![t] = "locked" ]
    /\ mc_todo' =
        [ mc_todo EXCEPT ![t] =
            IF mc_call[t].op = "clear" THEN << "clear" >>
            ELSE acquire_steps(mc_call[t].reuse_model, mc_key, mc_instance,
                               mc_call[t].key) ]
    /\ UNCHANGED << mc_key, mc_instance, mc_call, mc_local, mc_ret,
                    mc_last_change, mc_prev, mc_next, mc_calls, mc_overlap >>
    /\ McOthersUnchanged

\* the thread leaves the locked section when nothing is left of it
McLeave(t, left, ret) ==
    /\ mc_todo' = [ mc_todo EXCEPT ![t] = left ]
    /\ IF left = << >>
       THEN /\ mc_lock' = IF mc_lock = t THEN 0 ELSE mc_lock
            /\ mc_pc' = [ mc_pc EXCEPT ![t] = "returned" ]
            /\ mc_ret' = [ mc_ret EXCEPT ![t] = ret ]
       ELSE UNCHANGED << mc_lock, mc_pc, mc_ret >>

\* lines 84-100 and 107-108: the next statement of the locked section
McStep(t) ==
    /\ mc_pc[t] = "locked"
    /\ mc_todo[t] # << >>
    /\ LET step == Head(mc_todo[t])
           left == Tail(mc_todo[t])
           key == mc_call[t].key
       IN  CASE step = "hit" ->
                /\ McLeave(t, left, Ret(mc_instance, TRUE, FALSE))
                /\ Logged(Event("hit", t, key, mc_instance))
                /\ UNCHANGED << mc_key, mc_instance, mc_local, mc_next >>
             [] step = "evict" ->
                /\ mc_instance' = 0 /\ mc_key' = NoKey
                /\ McLeave(t, left, NoRet)
                /\ Logged(Event("evict", t, mc_key, mc_instance))
                /\ UNCHANGED << mc_local, mc_next >>
             [] step = "release" ->
                /\ McLeave(t, left, NoRet)
                /\ Logged(Event("release", t, NoKey, 0))
                /\ UNCHANGED << mc_key, mc_instance, mc_local, mc_next >>
             [] step = "load" ->
                \E loaded \in BOOLEAN :
                    IF loaded
                    THEN /\ mc_local' = [ mc_local EXCEPT ![t] = mc_next ]
                         /\ mc_next' = mc_next + 1
                         /\ McLeave(t, left, Ret(mc_next, FALSE, FALSE))
                         /\ Logged(Event("load", t, key, mc_next))
                         /\ UNCHANGED << mc_key, mc_instance >>
                    ELSE /\ McLeave(t, << >>, Ret(0, FALSE, TRUE))
                         /\ Logged(Event("load_failed", t, key, 0))
                         /\ UNCHANGED << mc_key, mc_instance, mc_local,
                                         mc_next >>
             [] step = "populate" ->
                /\ mc_instance' = mc_local[t] /\ mc_key' = key
                /\ McLeave(t, left, Ret(mc_local[t], FALSE, FALSE))
                /\ Logged(Event("populate", t, key, mc_local[t]))
                /\ UNCHANGED << mc_local, mc_next >>
             [] step = "clear" ->
                /\ mc_instance' = 0 /\ mc_key' = NoKey
                /\ mc_todo' = [ mc_todo EXCEPT ![t] = left ]
                /\ mc_lock' = IF mc_lock = t THEN 0 ELSE mc_lock
                /\ mc_pc' = [ mc_pc EXCEPT ![t] = "clear_release" ]
                /\ Logged(Event("clear", t, mc_key, mc_instance))
                /\ UNCHANGED << mc_local, mc_next, mc_ret >>
    /\ UNCHANGED << mc_call, mc_calls, mc_overlap >>
    /\ McOthersUnchanged

\* line 110: clear_model_cache runs the release hook after the lock
McClearRelease(t) ==
    /\ mc_pc[t] = "clear_release"
    /\ mc_pc' = [ mc_pc EXCEPT ![t] = "returned" ]
    /\ Logged(Event("release", t, NoKey, 0))
    /\ UNCHANGED << mc_key, mc_instance, mc_lock, mc_call, mc_todo, mc_local,
                    mc_ret, mc_next, mc_calls, mc_overlap >>
    /\ McOthersUnchanged

NextModelCache ==
    \E t \in Threads :
        McCall(t) \/ McLock(t) \/ McStep(t) \/ McClearRelease(t)

SpecModelCache == InitModelCache /\ [][NextModelCache]_vars

(***************************************************************************)
(* youtube_service: _set_cached_video_info, get_cached_video_info and      *)
(* clear_video_info_cache, with the clock.  Each body runs with            *)
(* _METADATA_CACHE_LOCK held and is one step.  The value of                *)
(* YOUTUBE_INFO_CACHE_TTL_SECONDS is any integer from 0 on.                *)
(***************************************************************************)
InitMetadataCache ==
    /\ MainIdle /\ PlanIdle /\ ModelCacheIdle /\ ServicesIdle
    /\ md_ttl \in 0..MaxTtl
    /\ MetadataCacheFresh

MdOthersUnchanged ==
    UNCHANGED << batchVars, cancel_event, metadata_cache, fetchVars, dlVars, fsVars,
                 tVars, cancel_seen, cVars, uiVars, planVars, mcVars, md_ttl,
                 serviceVars >>

\* time.monotonic() moves on
MdTick ==
    /\ md_now < MaxTime
    /\ md_now' = md_now + 1
    /\ UNCHANGED << md_cache, md_heap, md_held, md_history, md_ret, md_ops >>
    /\ MdOthersUnchanged

\* lines 125-134
MdSet ==
    /\ md_ops < MaxOps
    /\ md_ops' = md_ops + 1
    /\ \E url \in MdUrls, info \in md_held :
        LET cache_key == normalize_cache_key(url)
            purged == purge_expired_metadata_cache(md_cache, md_now, md_ttl)
            copy == dict_copy(md_heap, info)
        IN  /\ md_history' =
                IF cache_key \in MdKeys
                THEN [ md_history EXCEPT
                        ![cache_key] = SetCall(TRUE, md_now, md_heap[info]) ]
                ELSE md_history
            /\ IF cache_key = "" \/ md_ttl <= 0
               THEN UNCHANGED << md_cache, md_heap >>
               ELSE /\ md_heap' = copy.heap
                    /\ md_cache' =
                        [ purged EXCEPT
                            ![cache_key] = CacheEntry(md_now, copy.obj) ]
    /\ UNCHANGED << md_now, md_held, md_ret >>
    /\ MdOthersUnchanged

\* lines 107-117
MdGet ==
    /\ md_ops < MaxOps
    /\ md_ops' = md_ops + 1
    /\ \E url \in MdUrls :
        LET cache_key == normalize_cache_key(url)
            purged == purge_expired_metadata_cache(md_cache, md_now, md_ttl)
        IN  IF cache_key = ""
            THEN /\ md_ret' = Read(md_ops + 1, url, 0)
                 /\ UNCHANGED << md_cache, md_heap, md_held >>
            ELSE /\ md_cache' = purged
                 /\ IF purged[cache_key].obj = 0
                    THEN /\ md_ret' = Read(md_ops + 1, url, 0)
                         /\ UNCHANGED << md_heap, md_held >>
                    ELSE LET copy == dict_copy(md_heap, purged[cache_key].obj)
                         IN  /\ md_heap' = copy.heap
                             /\ md_held' = md_held \cup { copy.obj }
                             /\ md_ret' = Read(md_ops + 1, url, copy.obj)
    /\ UNCHANGED << md_now, md_history >>
    /\ MdOthersUnchanged

\* lines 120-122
MdClear ==
    /\ md_ops < MaxOps
    /\ md_ops' = md_ops + 1
    /\ md_cache' = [ k \in MdKeys |-> NoEntry ]
    /\ md_history' = [ k \in MdKeys |-> NoSet ]
    /\ UNCHANGED << md_now, md_heap, md_held, md_ret >>
    /\ MdOthersUnchanged

\* a caller changes a dict it holds
MdMutate ==
    /\ \E obj \in md_held :
        /\ md_heap[obj] # "X"
        /\ md_heap' = [ md_heap EXCEPT ![obj] = "X" ]
    /\ UNCHANGED << md_now, md_cache, md_held, md_history, md_ret, md_ops >>
    /\ MdOthersUnchanged

NextMetadataCache == MdTick \/ MdSet \/ MdGet \/ MdClear \/ MdMutate

SpecMetadataCache == InitMetadataCache /\ [][NextMetadataCache]_vars

(***************************************************************************)
(* transcription_service._save_output called on its own, any number of     *)
(* times, on an output directory that holds some files already.  A file    *)
(* is its name in the output directory.                                    *)
(***************************************************************************)
Digits == << "0", "1", "2", "3", "4", "5", "6", "7", "8", "9" >>

\* str(n) of an integer from 0 on
RECURSIVE decimal(_)
decimal(n) ==
    IF n < 10 THEN Digits[n + 1] ELSE decimal(n \div 10) \o Digits[(n % 10) + 1]

\* f"{n:0{width}d}": zeros in front up to the width, never a digit cut off
RECURSIVE zero_padded(_, _)
zero_padded(text, width) ==
    IF Len(text) >= width THEN text ELSE zero_padded("0" \o text, width)

\* line 446
BaseName(stem, timestamp) == stem \o "_transcript_" \o timestamp

\* lines 447 and 451: the name without and with a counter
OutputName(base_name, counter, output_format) ==
    IF counter = 0 THEN base_name \o "." \o output_format
    ELSE base_name \o "_" \o zero_padded(decimal(counter), 2)
         \o "." \o output_format

\* lines 447-452 with the loop left out
choose_output_path_overwriting(files, base_name, output_format, counter) ==
    OutputName(base_name, 0, output_format)

\* lines 447-452: counter is the number the loop tried last, 0 for the
\* name without a counter
RECURSIVE choose_output_path(_, _, _, _)
choose_output_path(files, base_name, output_format, counter) ==
    IF OutputName(base_name, counter, output_format) \in files
    THEN choose_output_path(files, base_name, output_format, counter + 1)
    ELSE OutputName(base_name, counter, output_format)

\* the most names with a counter that are taken one after the other
MaxColliding == 10
\* the output directory can hold any of the names up to this counter
MaxScattered == 2
MaxSaves == 2

SaveStems == { "talk" }
SaveTimestamps == { "20240131_093000", "20240131_093001" }
SaveFormats == { "txt", "srt" }

\* the names with the counters 0..n
TakenUpTo(base_name, output_format, n) ==
    { OutputName(base_name, k, output_format) : k \in 0..n }

\* what the output directory can hold before the first call
OutputDirectories ==
    LET base_name == BaseName("talk", "20240131_093000")
    IN  SUBSET UNION { TakenUpTo(base_name, f, MaxScattered) : f \in SaveFormats }
        \cup { TakenUpTo(base_name, "txt", n) : n \in 0..MaxColliding }

InitSaveOutput ==
    /\ MainIdle /\ PlanIdle /\ ModelCacheIdle /\ MetadataCacheIdle
    /\ LocateIdle /\ QueueIdle /\ DeviceIdle /\ SrtIdle /\ ApiIdle
    /\ so_files \in OutputDirectories
    /\ so_last = NoSave /\ so_saves = 0

\* lines 438-470 for a supported format: the exporter writes the file
SaveOutput ==
    /\ so_saves < MaxSaves
    /\ so_saves' = so_saves + 1
    /\ \E stem \in SaveStems, timestamp \in SaveTimestamps,
          output_format \in SaveFormats :
        LET base_name == BaseName(stem, timestamp)
            output_path ==
                choose_output_path(so_files, base_name, output_format, 0)
        IN  /\ so_last' = [ made |-> TRUE, base_name |-> base_name,
                            output_format |-> output_format,
                            before |-> so_files, output_path |-> output_path ]
            /\ so_files' = so_files \cup { output_path }
    /\ UNCHANGED << mainVars, planVars, mcVars, mdVars, locVars, qVars,
                    devVars, srtVars,
                    apiVars >>

NextSaveOutput == SaveOutput

SpecSaveOutput == InitSaveOutput /\ [][NextSaveOutput]_vars

(***************************************************************************)
(* The end of youtube_service.download_audio on its own: a download        *)
(* attempt has succeeded and the file it produced is looked up in the      *)
(* download directory.  A path is a name in that directory.                *)
(***************************************************************************)
EndsWith(s, suffix) ==
    Len(s) >= Len(suffix)
    /\ SubSeq(s, Len(s) - Len(suffix) + 1, Len(s)) = suffix

\* the position of the last "." of a name, 0 when it has none
RECURSIVE last_dot(_, _)
last_dot(name, k) ==
    IF k = 0 THEN 0
    ELSE IF SubSeq(name, k, k) = "." THEN k ELSE last_dot(name, k - 1)

\* Path.with_suffix on a name that does not begin with "."
with_suffix(name, suffix) ==
    LET dot == last_dot(name, Len(name))
    IN  IF dot > 1 THEN SubSeq(name, 1, dot - 1) \o suffix ELSE name \o suffix

DOWNLOAD_DIR == "/tmp/penman_youtube_1"

\* Path.resolve() of a name in the download directory
resolve(name) == DOWNLOAD_DIR \o "/" \o name

\* the names the download directory can hold, in the order sorted() gives
DirNames == << "a_abc.wav", "abc.m4a", "abc.wav", "old.wav", "x_abc.wav" >>

\* the members of a set of those names, sorted
sorted_paths(names) ==
    LET kept == { k \in 1..Len(DirNames) : DirNames[k] \in names }
        RECURSIVE from(_)
        from(k) ==
            IF k > Len(DirNames) THEN << >>
            ELSE IF k \in kept THEN << DirNames[k] >> \o from(k + 1)
            ELSE from(k + 1)
    IN  from(1)

OUTPUT_NOT_FOUND ==
    "Download finished, but no audio file was found for transcription."

\* lines 706-718: candidate_paths
candidate_paths(prepared, hook, video_id, dir) ==
    << with_suffix(prepared, ".wav") >>
    \o (IF hook # "" THEN << hook, with_suffix(hook, ".wav") >> ELSE << >>)
    \o (IF video_id # ""
        THEN sorted_paths({ name \in Range(dir) :
                                EndsWith(name, "_" \o video_id \o ".wav") })
        ELSE << >>)

\* lines 706-732: dir is the directory newest file first
locate_downloaded_audio(prepared, hook, video_id, dir, not_files) ==
    LET existing_candidates ==
            SelectFrom(candidate_paths(prepared, hook, video_id, dir),
                       Range(dir) \ not_files)
        latest_wav ==
            SelectFrom(dir, { name \in Range(dir) : EndsWith(name, ".wav") })
    IN  IF existing_candidates # << >> THEN Ok(resolve(existing_candidates[1]))
        ELSE IF latest_wav # << >> THEN Ok(resolve(latest_wav[1]))
        ELSE Failed(OUTPUT_NOT_FOUND)

MaxDirEntries == 3

PreparedNames == { "abc.webm", "abc.wav", "NA.webm" }
HookNames == { "", "abc.m4a", "old.webm" }
VideoIds == { "", "abc" }

\* the download directory: distinct names, newest first
Directories ==
    { dir \in UNION { [ 1..n -> Range(DirNames) ] : n \in 0..MaxDirEntries } :
        \A i, j \in 1..Len(dir) : i # j => dir[i] # dir[j] }

InitLocate ==
    /\ MainIdle /\ PlanIdle /\ ModelCacheIdle /\ MetadataCacheIdle
    /\ SaveOutputIdle /\ QueueIdle /\ DeviceIdle /\ SrtIdle /\ ApiIdle
    /\ loc_pc = "call"
    /\ loc_prepared \in PreparedNames
    /\ loc_hook \in HookNames
    /\ loc_video_id \in VideoIds
    /\ loc_dir \in Directories
    /\ loc_not_files \in SUBSET (Range(loc_dir) \cap { "abc.wav" })
    /\ loc_result = NoResult

\* lines 703-732 after the cancel check
Locate ==
    /\ loc_pc = "call"
    /\ loc_result' = locate_downloaded_audio(
            loc_prepared, loc_hook, loc_video_id, loc_dir, loc_not_files)
    /\ loc_pc' = "done"
    /\ UNCHANGED << loc_prepared, loc_hook, loc_video_id, loc_dir,
                    loc_not_files >>
    /\ UNCHANGED << mainVars, planVars, mcVars, mdVars, soVars, qVars,
                    devVars, srtVars,
                    apiVars >>

NextLocate == Locate

SpecLocate == InitLocate /\ [][NextLocate]_vars

(***************************************************************************)
(* queue_service.QueueService on its own: any calls in any order on a      *)
(* queue that starts empty.  Indices are those of Python, from 0.          *)
(***************************************************************************)
WORKING_DIR == "/w"

\* str(Path(raw_path).expanduser().resolve()) of a path without "~", "."
\* or links: a relative path is taken from the working directory
resolve_path(raw_path) ==
    IF StartsWith(raw_path, "/") THEN raw_path
    ELSE WORKING_DIR \o "/" \o raw_path

\* the regular files there are: two of them differ in case only
RegularFilePaths == { "/w/a.wav", "/w/A.wav", "/w/b.wav" }

\* Path(normalized).is_file()
is_file(path) == path \in RegularFilePaths

\* what the calls are made with: paths for enqueue_local_paths, values for
\* append_unique
RawPaths == { "", "a.wav", "/w/A.wav", "b.wav", "missing.wav" }
QueueValues == { " ", " https://youtu.be/v1 ", "HTTPS://youtu.be/V1", "/w/B.WAV" }

LowerOfQueued ==
    [ text \in { resolve_path(raw_path) : raw_path \in RawPaths }
                \cup { strip(value) : value \in QueueValues } |->
        lower_chars(text) ]

\* item.lower()
item_lower(item) ==
    IF item \in DOMAIN LowerOfQueued THEN LowerOfQueued[item]
    ELSE lower_chars(item)

\* {item.lower() for item in self._items}
lower_items(items) == { item_lower(items[k]) : k \in 1..Len(items) }

\* what enqueue_local_paths has done after some of its paths
Enqueued(items, added, skipped) ==
    [ items |-> items, added |-> added, skipped |-> skipped ]

\* lines 30-45 with the test of line 36 left out
enqueue_step_keeping_duplicates(done, raw_path) ==
    IF raw_path = "" \/ ~is_file(resolve_path(raw_path))
    THEN Enqueued(done.items, done.added, done.skipped + 1)
    ELSE Enqueued(Append(done.items, resolve_path(raw_path)),
                  done.added + 1, done.skipped)

\* lines 30-45: one turn of the loop; the set of line 28 with what line 44
\* adds to it is the lower-cased items so far
enqueue_step(done, raw_path) ==
    LET normalized == resolve_path(raw_path)
    IN  IF raw_path = "" THEN Enqueued(done.items, done.added, done.skipped + 1)
        ELSE IF item_lower(normalized) \in lower_items(done.items)
        THEN Enqueued(done.items, done.added, done.skipped + 1)
        ELSE IF ~is_file(normalized)
        THEN Enqueued(done.items, done.added, done.skipped + 1)
        ELSE Enqueued(Append(done.items, normalized),
                      done.added + 1, done.skipped)

\* lines 25-47
RECURSIVE enqueue_local_paths(_, _)
enqueue_local_paths(done, paths) ==
    IF paths = << >> THEN done
    ELSE enqueue_local_paths(enqueue_step(done, Head(paths)), Tail(paths))

\* lines 49-57: the items after the call and what it returned
append_unique(items, value) ==
    LET normalized == strip(value)
    IN  IF normalized = "" THEN << items, FALSE >>
        ELSE IF item_lower(normalized) \in lower_items(items)
        THEN << items, FALSE >>
        ELSE << Append(items, normalized), TRUE >>

\* sorted({idx for idx in indices if 0 <= idx < len(self._items)})
selected_indices(items, indices) ==
    LET valid == { idx \in Range(indices) : 0 <= idx /\ idx < Len(items) }
        RECURSIVE from(_)
        from(idx) ==
            IF idx >= Len(items) THEN << >>
            ELSE (IF idx \in valid THEN << idx >> ELSE << >>) \o from(idx + 1)
    IN  from(0)

\* the items at the Python indices i and j change places
swapped(items, i, j) ==
    [ items EXCEPT ![i + 1] = items[j + 1], ![j + 1] = items[i + 1] ]

\* lines 64-68: the loop over the selected indices, upwards
RECURSIVE move_up_loop(_, _)
move_up_loop(items, selected) ==
    IF selected = << >> THEN items
    ELSE move_up_loop(swapped(items, Head(selected) - 1, Head(selected)),
                      Tail(selected))

\* lines 76-80: the loop over the selected indices, downwards
RECURSIVE move_down_loop(_, _)
move_down_loop(items, selected) ==
    IF selected = << >> THEN items
    ELSE LET bottom == selected[Len(selected)]
         IN  move_down_loop(swapped(items, bottom + 1, bottom),
                            SubSeq(selected, 1, Len(selected) - 1))

\* move_down with its loop going upwards
move_down_ascending(items, indices) ==
    LET selected == selected_indices(items, indices)
        RECURSIVE loop(_, _)
        loop(now, left) ==
            IF left = << >> THEN now
            ELSE loop(swapped(now, Head(left) + 1, Head(left)), Tail(left))
    IN  IF selected = << >> \/ selected[Len(selected)] >= Len(items) - 1
        THEN << items, selected >>
        ELSE << loop(items, selected),
                [ k \in 1..Len(selected) |-> selected[k] + 1 ] >>

\* lines 59-69: the items after the call and what it returned
move_up(items, indices) ==
    LET selected == selected_indices(items, indices)
    IN  IF selected = << >> \/ selected[1] = 0 THEN << items, selected >>
        ELSE << move_up_loop(items, selected),
                [ k \in 1..Len(selected) |-> selected[k] - 1 ] >>

\* lines 71-81
move_down(items, indices) ==
    LET selected == selected_indices(items, indices)
    IN  IF selected = << >> \/ selected[Len(selected)] >= Len(items) - 1
        THEN << items, selected >>
        ELSE << move_down_loop(items, selected),
                [ k \in 1..Len(selected) |-> selected[k] + 1 ] >>

\* sorted(indices, reverse=True): an index named twice stays twice
RECURSIVE sorted_descending(_)
sorted_descending(indices) ==
    IF indices = << >> THEN << >>
    ELSE LET rest == sorted_descending(Tail(indices))
             above == { k \in 1..Len(rest) : rest[k] > Head(indices) }
         IN  SubSeq(rest, 1, Cardinality(above)) \o << Head(indices) >>
                \o SubSeq(rest, Cardinality(above) + 1, Len(rest))

\* del self._items[index]
deleted_at(items, position) ==
    SubSeq(items, 1, position) \o SubSeq(items, position + 2, Len(items))

\* lines 19-22: the loop over the sorted indices; the test of line 20 is
\* made on the items as they are by then
RECURSIVE remove_loop(_, _, _)
remove_loop(items, todo, removed) ==
    IF todo = << >> THEN << items, removed >>
    ELSE IF 0 <= Head(todo) /\ Head(todo) < Len(items)
    THEN remove_loop(deleted_at(items, Head(todo)), Tail(todo), removed + 1)
    ELSE remove_loop(items, Tail(todo), removed)

\* lines 17-23: the items after the call and what it returned
remove_indices(items, indices) ==
    remove_loop(items, sorted_descending(indices), 0)

\* the most paths in one call of enqueue_local_paths
MaxPaths == 2
\* the most indices in one call of move_up or move_down
MaxSelected == 2

\* the indices of a queue of three items, one below and one above them
IndexRange == (0 - 1)..3

RECURSIVE Ascending(_)
Ascending(set) ==
    IF set = {} THEN << >>
    ELSE LET least == CHOOSE i \in set : \A j \in set : i <= j
         IN  << least >> \o Ascending(set \ { least })

\* what the list box gives, and lists that are not in order or name an
\* index twice
IndexLists ==
    { Ascending(set) : set \in { chosen \in SUBSET IndexRange :
                                    Cardinality(chosen) <= MaxSelected } }
        \cup { << 2, 1 >>, << 1, 1 >>, << 1, 0, 1 >> }

SeqsUpTo(set, n) == UNION { [ 1..k -> set ] : k \in 0..n }

InitQueue ==
    /\ MainIdle /\ PlanIdle /\ ModelCacheIdle /\ MetadataCacheIdle
    /\ SaveOutputIdle /\ LocateIdle /\ QueueIdle /\ DeviceIdle /\ SrtIdle /\ ApiIdle

QOthersUnchanged ==
    UNCHANGED << mainVars, planVars, mcVars, mdVars, soVars, locVars, devVars,
                 srtVars,
                    apiVars >>

\* history: the record of a call is kept until the caller has used what it
\* returned; the selection a move_up returned is kept for the next call
QCallReturned == q_last.op \in { "none", "move_up" }

QEnqueueLocalPaths ==
    /\ QCallReturned
    /\ \E paths \in SeqsUpTo(RawPaths, MaxPaths) :
        LET done == enqueue_local_paths(Enqueued(q_items, 0, 0), paths)
        IN  /\ q_items' = done.items
            /\ q_last' = QueueCall("enqueue_local_paths", paths, "", << >>,
                                   q_items, << done.added, done.skipped >>)
    /\ QOthersUnchanged

QAppendUnique ==
    /\ QCallReturned
    /\ \E value \in QueueValues :
        LET done == append_unique(q_items, value)
        IN  /\ q_items' = done[1]
            /\ q_last' = QueueCall("append_unique", << >>, value, << >>,
                                   q_items, << done[2] >>)
    /\ QOthersUnchanged

QMoveUp ==
    /\ QCallReturned
    /\ \E indices \in IndexLists :
        LET done == move_up(q_items, indices)
        IN  /\ q_items' = done[1]
            /\ q_last' = QueueCall("move_up", << >>, "", indices, q_items,
                                   done[2])
    /\ QOthersUnchanged

QMoveDown ==
    /\ QCallReturned
    /\ \E indices \in IndexLists :
        LET done == move_down(q_items, indices)
        IN  /\ q_items' = done[1]
            /\ q_last' = QueueCall("move_down", << >>, "", indices, q_items,
                                   done[2])
    /\ QOthersUnchanged

QRemoveIndices ==
    /\ QCallReturned
    /\ \E indices \in IndexLists :
        LET done == remove_indices(q_items, indices)
        IN  /\ q_items' = done[1]
            /\ q_last' = QueueCall("remove_indices", << >>, "", indices,
                                   q_items, << done[2] >>)
    /\ QOthersUnchanged

\* history: the record of the last call is dropped
QForget ==
    /\ q_last # NoQueueCall
    /\ q_last' = NoQueueCall
    /\ UNCHANGED q_items
    /\ QOthersUnchanged

NextQueue ==
    \/ QEnqueueLocalPaths \/ QAppendUnique \/ QMoveUp \/ QMoveDown
    \/ QRemoveIndices \/ QForget

SpecQueue == InitQueue /\ [][NextQueue]_vars

(***************************************************************************)
(* transcription_service._resolve_compute_device on its own: every token   *)
(* on every machine.                                                       *)
(***************************************************************************)
\* the three tokens as written, in other cases and with blanks around
\* them, and tokens that are none of the three
DeviceTokens ==
    { "cpu", "gpu", "auto", "CPU", "Gpu", "AUTO", " cpu", "gpu ", " auto\n",
      "", " ", "cuda", "mps", "gpu0", "c pu" }

\* PyTorch importable or not, CUDA and MPS there or not
Machines == { Hardware(torch, cuda, mps) : torch, cuda, mps \in BOOLEAN }

InitDevice ==
    /\ MainIdle /\ PlanIdle /\ ModelCacheIdle /\ MetadataCacheIdle
    /\ SaveOutputIdle /\ LocateIdle /\ QueueIdle /\ DeviceIdle /\ SrtIdle /\ ApiIdle

ResolveComputeDevice ==
    /\ \E requested_device \in DeviceTokens, hw \in Machines :
        dev_call' = DeviceCall(requested_device, hw,
                        resolve_compute_device(requested_device, hw))
    /\ UNCHANGED << mainVars, planVars, mcVars, mdVars, soVars, locVars,
                    qVars, srtVars,
                    apiVars >>

NextDevice == ResolveComputeDevice

SpecDevice == InitDevice /\ [][NextDevice]_vars

(***************************************************************************)
(* exporters.export_srt on its own.  A time is a whole number of quarters  *)
(* of a millisecond, so that the halves round() has to decide are there.   *)
(***************************************************************************)
TICKS_PER_MILLI == 4
SECOND == 1000 * TICKS_PER_MILLI

\* round(n / d) of Python: to the nearest, a half to the even neighbour
round_half_even(n, d) ==
    LET q == n \div d
        twice == 2 * (n % d)
    IN  IF twice < d THEN q
        ELSE IF twice > d THEN q + 1
        ELSE IF q % 2 = 0 THEN q ELSE q + 1

\* f"{hours:02d}:{minutes:02d}:{secs:02d}{millisecond_separator}{millis:03d}"
clock_text(total_millis, millisecond_separator) ==
    zero_padded(decimal(total_millis \div 3600000), 2) \o ":"
        \o zero_padded(decimal((total_millis % 3600000) \div 60000), 2) \o ":"
        \o zero_padded(decimal((total_millis % 60000) \div 1000), 2)
        \o millisecond_separator
        \o zero_padded(decimal(total_millis % 1000), 3)

\* _format_clock with int() in the place of int(round())
format_clock_truncating(seconds, millisecond_separator) ==
    clock_text(Max(0, seconds) \div TICKS_PER_MILLI, millisecond_separator)

\* _format_clock, lines 15-22
format_clock(seconds, millisecond_separator) ==
    clock_text(round_half_even(Max(0, seconds), TICKS_PER_MILLI),
               millisecond_separator)

TimelineItem(start_seconds, end_seconds, text) ==
    [ start_seconds |-> start_seconds, end_seconds |-> end_seconds,
      text |-> text ]

\* _normalize_timeline_item, lines 32-46: << >> stands for None
normalize_timeline_item(raw_item) ==
    IF strip(raw_item.text) = "" THEN << >>
    ELSE << TimelineItem(raw_item.start_seconds,
                IF raw_item.end_seconds <= raw_item.start_seconds
                THEN raw_item.start_seconds + SECOND
                ELSE raw_item.end_seconds,
                strip(raw_item.text)) >>

\* max(1.0, min(8.0, len(text) / per_second)): exact for the texts of
\* the payloads, which are shorter than a second of text
heuristic_duration(text, per_second) ==
    Max(SECOND, Min(8 * SECOND, (Len(text) * SECOND) \div per_second))

\* _build_fallback_timeline, lines 49-72: the loop over the segments
RECURSIVE fallback_from_segments(_, _)
fallback_from_segments(segments, cursor_seconds) ==
    IF segments = << >> THEN << >>
    ELSE IF strip(Head(segments)) = ""
    THEN fallback_from_segments(Tail(segments), cursor_seconds)
    ELSE LET text == strip(Head(segments))
             duration_seconds == heuristic_duration(text, 12)
         IN  << TimelineItem(cursor_seconds, cursor_seconds + duration_seconds,
                             text) >>
                \o fallback_from_segments(Tail(segments),
                                          cursor_seconds + duration_seconds)

\* _build_fallback_timeline, lines 49-88
build_fallback_timeline(data) ==
    LET timeline == fallback_from_segments(data.segments, 0)
        text_in_full == strip(data.full_text)
    IN  IF timeline # << >> THEN timeline
        ELSE IF text_in_full = "" THEN << >>
        ELSE << TimelineItem(0,
                    Max(SECOND, (Len(text_in_full) * SECOND) \div 15),
                    text_in_full) >>

\* the key of timeline.sort: (start_seconds, end_seconds)
SortsBefore(a, b) ==
    \/ a.start_seconds < b.start_seconds
    \/ a.start_seconds = b.start_seconds /\ a.end_seconds < b.end_seconds

\* list.sort keeps the order of items with equal keys
RECURSIVE sorted_timeline(_)
sorted_timeline(timeline) ==
    IF timeline = << >> THEN << >>
    ELSE LET rest == sorted_timeline(Tail(timeline))
             first == Head(timeline)
             ahead == { k \in 1..Len(rest) : SortsBefore(rest[k], first) }
         IN  SubSeq(rest, 1, Cardinality(ahead)) \o << first >>
                \o SubSeq(rest, Cardinality(ahead) + 1, Len(rest))

RECURSIVE normalized_items(_)
normalized_items(raw_timeline) ==
    IF raw_timeline = << >> THEN << >>
    ELSE normalize_timeline_item(Head(raw_timeline))
            \o normalized_items(Tail(raw_timeline))

\* _get_timeline, lines 91-105
get_timeline(data) ==
    LET timeline == normalized_items(data.timeline_segments)
    IN  IF timeline # << >> THEN sorted_timeline(timeline)
        ELSE build_fallback_timeline(data)

\* line 221: f"{index}\n{start} --> {end}\n{item['text']}\n"
srt_block(number, item) ==
    decimal(number) \o "\n" \o format_clock(item.start_seconds, ",")
        \o " --> " \o format_clock(item.end_seconds, ",") \o "\n"
        \o item.text \o "\n"

\* export_srt, lines 215-222: the text written to output_path
export_srt(data) ==
    LET timeline == get_timeline(data)
        blocks == [ number \in 1..Len(timeline) |->
                        srt_block(number, timeline[number]) ]
    IN  strip(join_lines(blocks)) \o "\n"

\* the most items in timeline_segments
MaxBlocks == 2

\* times at which a digit carries or a half is to be rounded: 0.5 ms,
\* 1.5 ms, 999.75 ms, 59.99975 s, 3599.9995 s, 100 h and a quarter ms
ExportTimes == { 0, 2, 6, 3999, 239999, 14399998, 1440000001 }

RawTimelineItems ==
    { TimelineItem(start, end, "hello") :
        start \in ExportTimes, end \in { 0, 7, 1440000003 } }
        \cup { TimelineItem(0, 7, " ") }

\* payloads with a timeline, and payloads whose timeline has nothing to
\* show, with and without segments and full text to fall back on
Payloads ==
    { Payload(timeline_segments, << "hello", " ", "world" >>, "hello world") :
        timeline_segments \in SeqsUpTo(RawTimelineItems, MaxBlocks) }
    \cup
    { Payload(timeline_segments, segments, text_in_full) :
        timeline_segments \in { << >>, << TimelineItem(0, 7, " ") >> },
        segments \in { << >>, << " " >>, << "hello", " ", "world" >> },
        text_in_full \in { "", "hello world" } }

InitSrt ==
    /\ MainIdle /\ PlanIdle /\ ModelCacheIdle /\ MetadataCacheIdle
    /\ SaveOutputIdle /\ LocateIdle /\ QueueIdle /\ DeviceIdle /\ SrtIdle /\ ApiIdle

ExportSrt ==
    /\ SrtIdle
    /\ \E data \in Payloads :
        /\ srt_payload' = data
        /\ srt_written' = export_srt(data)
    /\ UNCHANGED << mainVars, planVars, mcVars, mdVars, soVars, locVars,
                    qVars, devVars,
                    apiVars >>

NextSrt == ExportSrt

SpecSrt == InitSrt /\ [][NextSrt]_vars

(***************************************************************************)
(* youtube_service.fetch_video_info alone, one call a step, with the clock *)
(* and the metadata cache.  What extract_info does at its n-th call is the *)
(* n-th entry of a script: "ok" for a dict, "empty" for no dict, or the    *)
(* text of the error it raises.                                            *)
(***************************************************************************)
ExtractorOutcomes == { "ok", "empty" } \cup FewErrorTexts

MaxAttempts ==
    Len(ClientStrategies) * (MAX_METADATA_RETRIES_PER_CLIENT + 1)

Script(first, rest) == [ k \in 1..MaxAttempts |-> IF k = 1 THEN first ELSE rest ]
Scripts == { Script(first, rest) : first, rest \in ExtractorOutcomes }

FcValid == [ url \in FcUrls |-> is_youtube_url(url) ]

Fetched(ok, extractor_calls) == [ ok |-> ok, extractor_calls |-> extractor_calls ]

\* lines 373-461: the loops over the clients and the retries, from the
\* attempt retry_idx of the client on; calls counts the extractor calls
RECURSIVE fetch_attempts(_, _, _, _)
fetch_attempts(script, client, retry_idx, calls) ==
    LET outcome == script[calls + 1]
        next_client ==
            IF client < Len(ClientStrategies)
            THEN fetch_attempts(script, client + 1, 0, calls + 1)
            ELSE Fetched(FALSE, calls + 1)
    IN  IF outcome = "ok" THEN Fetched(TRUE, calls + 1)
        ELSE IF outcome = "empty" THEN next_client
        ELSE LET todo == failure_action(ClassificationOf[outcome], retry_idx,
                                        MAX_METADATA_RETRIES_PER_CLIENT)
             IN  IF todo = "retry"
                 THEN fetch_attempts(script, client, retry_idx + 1, calls + 1)
                 ELSE IF todo = "next" THEN next_client
                 ELSE Fetched(FALSE, calls + 1)

\* lines 125-134 without the assignment of line 134
set_cached_video_info_never(cache, cache_key, now, ttl) ==
    IF cache_key = "" \/ ttl <= 0 THEN cache
    ELSE purge_expired_metadata_cache(cache, now, ttl)

\* lines 125-134: _set_cached_video_info
set_cached_video_info(cache, cache_key, now, ttl) ==
    IF cache_key = "" \/ ttl <= 0 THEN cache
    ELSE [ purge_expired_metadata_cache(cache, now, ttl)
            EXCEPT ![cache_key] = CacheEntry(now, 1) ]

\* lines 356-476: the call, as the cache after it and the record of it
fetch_video_info(cache, url, script, now, ttl) ==
    IF ~FcValid[url]
    THEN << cache, FetchCall(url, "raised", 0, cache, now) >>
    ELSE LET cache_key == normalize_cache_key(url)
             purged == purge_expired_metadata_cache(cache, now, ttl)
         IN  IF purged[cache_key] # NoEntry
             THEN << purged, FetchCall(url, "returned", 0, cache, now) >>
             ELSE LET got == fetch_attempts(script, 1, 0, 0)
                  IN  IF got.ok
                      THEN << set_cached_video_info(purged, cache_key, now, ttl),
                              FetchCall(url, "returned", got.extractor_calls,
                                        cache, now) >>
                      ELSE << purged,
                              FetchCall(url, "raised", got.extractor_calls,
                                        cache, now) >>

\* everything but the units of the single calls is as it starts
OtherUnitsIdle ==
    /\ MainIdle /\ PlanIdle /\ ModelCacheIdle /\ MetadataCacheIdle
    /\ SaveOutputIdle /\ LocateIdle /\ QueueIdle /\ DeviceIdle /\ SrtIdle

otherUnitVars ==
    << mainVars, planVars, mcVars, mdVars, soVars, locVars, qVars, devVars,
       srtVars >>

InitFetchCache ==
    /\ OtherUnitsIdle /\ TimelineIdle /\ HandoffIdle /\ MetricsIdle
    /\ fc_ttl \in 0..MaxTtl
    /\ FetchCacheFresh

FcOthersUnchanged ==
    UNCHANGED << otherUnitVars, tlVars, hqVars, smVars, fc_ttl >>

\* time.monotonic() moves on
FcTick ==
    /\ fc_now < MaxTime
    /\ fc_now' = fc_now + 1
    /\ UNCHANGED << fc_cache, fc_fetched, fc_last, fc_ops >>
    /\ FcOthersUnchanged

\* a call of fetch_video_info, after the one before it has come back
FcFetch ==
    /\ fc_last = NoFetchCall
    /\ fc_ops < MaxOps
    /\ fc_ops' = fc_ops + 1
    /\ \E url \in FcUrls, script \in Scripts :
        LET done == fetch_video_info(fc_cache, url, script, fc_now, fc_ttl)
        IN  /\ fc_cache' = done[1]
            /\ fc_last' = done[2]
            /\ fc_fetched' =
                IF done[2].outcome = "returned" /\ done[2].extractor_calls > 0
                THEN [ fc_fetched EXCEPT ![normalize_cache_key(url)] = fc_now ]
                ELSE fc_fetched
    /\ fc_now' = fc_now
    /\ FcOthersUnchanged

\* the caller has taken what the call gave
FcForget ==
    /\ fc_last # NoFetchCall
    /\ fc_last' = NoFetchCall
    /\ UNCHANGED << fc_now, fc_cache, fc_fetched, fc_ops >>
    /\ FcOthersUnchanged

NextFetchCache == FcTick \/ FcFetch \/ FcForget

SpecFetchCache == InitFetchCache /\ [][NextFetchCache]_vars

(***************************************************************************)
(* transcription_service._transcribe_segments alone: the timeline of one   *)
(* call, from what model.transcribe gives for each chunk.  Times are in    *)
(* ticks, as for the exporters.                                            *)
(***************************************************************************)
MaxChunks == 2

\* 0.01 s
CENTISECOND == 10 * TICKS_PER_MILLI

\* round(seconds, 3): to the nearest millisecond
round_millis(ticks) == round_half_even(ticks, TICKS_PER_MILLI) * TICKS_PER_MILLI

SubSegment(text, start, end) == [ text |-> text, start |-> start, end |-> end ]

\* what model.transcribe did: it raised, or it returned a dict with "text"
\* and, when has_segments, a list under "segments"
ModelResult(raised, text, has_segments, segments) ==
    [ raised |-> raised, text |-> text, has_segments |-> has_segments,
      segments |-> segments ]

TimelineEntry(number, segment_index, start_seconds, end_seconds, text) ==
    [ index |-> number, segment_index |-> segment_index,
      start_seconds |-> start_seconds, end_seconds |-> end_seconds,
      text |-> text ]

\* line 326 with idx in the place of idx - 1
chunk_offset_of_next(nominal, idx) == Max(0, nominal) * idx

\* line 326: max(0.0, float(segment_offset_seconds)) * (idx - 1)
chunk_offset(nominal, idx) == Max(0, nominal) * (idx - 1)

\* line 367 without its bounds
fallback_duration_unclamped(text) == (Len(text) * SECOND) \div 12

\* line 367: max(1.0, min(8.0, len(text) / 12.0)), to the tick below
fallback_duration(text) ==
    Max(SECOND, Min(8 * SECOND, (Len(text) * SECOND) \div 12))

\* lines 340-362: the loop over raw_segments
RECURSIVE sub_segment_items(_, _, _, _)
sub_segment_items(raw_segments, offset_seconds, idx, items) ==
    IF raw_segments = << >> THEN items
    ELSE LET raw_segment == Head(raw_segments)
             segment_text == strip(raw_segment.text)
             global_start == Max(0, offset_seconds + raw_segment.start)
             global_end == Max(global_start + CENTISECOND,
                               offset_seconds + raw_segment.end)
         IN  sub_segment_items(Tail(raw_segments), offset_seconds, idx,
                IF segment_text = "" THEN items
                ELSE Append(items,
                        TimelineEntry(Len(items) + 1, idx,
                                      round_millis(global_start),
                                      round_millis(global_end),
                                      segment_text)))

\* lines 326-379: what one chunk adds to timeline_items; an exception of
\* model.transcribe adds nothing
chunk_items(result, nominal, idx, items) ==
    IF result.raised THEN items
    ELSE LET offset_seconds == chunk_offset(nominal, idx)
             text == strip(result.text)
             from_model ==
                IF result.has_segments
                THEN sub_segment_items(result.segments, offset_seconds, idx,
                                       items)
                ELSE items
         IN  IF text # "" /\ Len(from_model) = Len(items)
             THEN Append(from_model,
                    TimelineEntry(Len(from_model) + 1, idx,
                                  round_millis(offset_seconds),
                                  round_millis(offset_seconds
                                               + fallback_duration(text)),
                                  text))
             ELSE from_model

\* lines 313-435: the loop over the chunks, as "timeline_segments"
RECURSIVE transcribe_timeline(_, _, _, _)
transcribe_timeline(results, nominal, idx, items) ==
    IF idx > Len(results) THEN items
    ELSE transcribe_timeline(results, nominal, idx + 1,
                             chunk_items(results[idx], nominal, idx, items))

\* "word word ... ": more than 96 characters
RECURSIVE repeated(_, _)
repeated(text, times) ==
    IF times = 0 THEN "" ELSE text \o repeated(text, times - 1)

ShortText == " hi "
MediumText == "thirty characters of some text"
LongText == repeated("word ", 20)

\* local times: quarter of a millisecond past a second, 5 ms past it
LocalSpans ==
    { << 0, SECOND + 5 * TICKS_PER_MILLI >>,
      << SECOND + 1, SECOND + 5 * TICKS_PER_MILLI >>,
      << 2 * SECOND, 0 >>,
      << 2 * SECOND, 3 * SECOND >> }

SubSegments ==
    { SubSegment("a", span[1], span[2]) : span \in LocalSpans }
        \cup { SubSegment(" ", 0, SECOND) }

\* what the model gives for one chunk
ModelResults ==
    { ModelResult(TRUE, "", FALSE, << >>) }
    \cup { ModelResult(FALSE, text, FALSE, << >>) :
            text \in { "", ShortText, MediumText, LongText } }
    \cup { ModelResult(FALSE, ShortText, TRUE, segments) :
            segments \in SeqsUpTo(SubSegments, 2) }
    \cup { ModelResult(FALSE, "", TRUE, << sub >>) :
            sub \in { SubSegment("a", 0, SECOND), SubSegment(" ", 0, SECOND) } }

\* run_transcription lines 588-592: the segment_offset_seconds argument
segment_offset_seconds(plan) ==
    IF ~plan.should_segment THEN 0
    ELSE plan.effective_segment_seconds * SECOND

\* the plans of an input of ten minutes and of one of unknown duration,
\* for a requested chunk length of a second and of five minutes
SegmentPlans ==
    { build_segmentation_plan(duration, requested, "cpu") :
        duration \in { 10 * 60 * 1000, NoDuration }, requested \in { 1, 300 } }

InitTimeline ==
    /\ OtherUnitsIdle /\ FetchCacheIdle /\ TimelineIdle
    /\ HandoffIdle /\ MetricsIdle

\* run_transcription lines 583-595 and _transcribe_segments: a run that
\* does not split has the one chunk of its input
TranscribeSegments ==
    /\ TimelineIdle
    /\ \E plan \in SegmentPlans :
       \E count \in 1..(IF plan.should_segment THEN MaxChunks ELSE 1) :
       \E results \in [ 1..count -> ModelResults ] :
            tl_call' = SegmentsCall(TRUE, plan, segment_offset_seconds(plan),
                          results,
                          transcribe_timeline(results,
                              segment_offset_seconds(plan), 1, << >>))
    /\ UNCHANGED << otherUnitVars, fcVars, hqVars, smVars >>

NextTimeline == TranscribeSegments

SpecTimeline == InitTimeline /\ [][NextTimeline]_vars

(***************************************************************************)
(* The hand-off between the worker thread and _process_queue, alone.       *)
(***************************************************************************)
\* the most progress events a worker puts before its terminal event
MaxEvents == 3

\* the kinds of the last event of a worker, gui.py lines 1018-1032
HqTerminalKinds == { "batch_done", "cancelled", "error" }

InitHandoff ==
    /\ OtherUnitsIdle /\ FetchCacheIdle /\ TimelineIdle /\ MetricsIdle
    /\ HandoffIdle

HqOthersUnchanged == UNCHANGED << otherUnitVars, fcVars, tlVars, smVars >>

\* gui.py lines 667-731, _start_transcription: the queue is drained, the
\* running state is set, the thread is started and the first poll is
\* scheduled 120 ms from now
HqStart ==
    /\ ~hq_is_running /\ hq_worker = NoWorker
    /\ hq_queue' = << >>
    /\ hq_is_running' = TRUE
    /\ hq_worker' = HqWorker(TRUE, 0, "none", TRUE)
    /\ hq_poll' = "scheduled"
    /\ HqOthersUnchanged

\* gui.py lines 796-1032, _run_worker: a put of the worker thread, of a
\* progress event or of the terminal event, after which it puts no more
HqPut ==
    /\ hq_worker.alive /\ hq_worker.last = "none"
    /\ \/ /\ hq_worker.puts < MaxEvents
          /\ hq_queue' = Append(hq_queue, "progress")
          /\ hq_worker' = [ hq_worker EXCEPT !.puts = @ + 1 ]
       \/ \E kind \in HqTerminalKinds :
            /\ hq_queue' = Append(hq_queue, kind)
            /\ hq_worker' = [ hq_worker EXCEPT !.puts = @ + 1, !.last = kind ]
    /\ UNCHANGED << hq_poll, hq_is_running >>
    /\ HqOthersUnchanged

\* the target of the thread returns after its last put: is_alive() is False
\* from now on
HqExit ==
    /\ hq_worker.alive /\ hq_worker.last # "none"
    /\ hq_worker' = [ hq_worker EXCEPT !.alive = FALSE ]
    /\ UNCHANGED << hq_queue, hq_poll, hq_is_running >>
    /\ HqOthersUnchanged

\* the timer of root.after(120, self._process_queue) fires
HqTimer ==
    /\ hq_poll = "scheduled"
    /\ hq_poll' = "draining"
    /\ UNCHANGED << hq_worker, hq_queue, hq_is_running >>
    /\ HqOthersUnchanged

\* gui.py lines 1038-1162: get_nowait() gives an event and it is handled,
\* a terminal event by _set_running_state(False)
HqGet ==
    /\ hq_poll = "draining" /\ hq_queue # << >>
    /\ hq_queue' = Tail(hq_queue)
    /\ hq_is_running' = IF Head(hq_queue) \in HqTerminalKinds THEN FALSE
                        ELSE hq_is_running
    /\ UNCHANGED << hq_worker, hq_poll >>
    /\ HqOthersUnchanged

\* gui.py lines 1040-1042: get_nowait() raises queue.Empty, the loop is left
HqEmpty ==
    /\ hq_poll = "draining" /\ hq_queue = << >>
    /\ hq_poll' = "left_loop"
    /\ UNCHANGED << hq_worker, hq_queue, hq_is_running >>
    /\ HqOthersUnchanged

\* gui.py lines 1164-1165: the next poll is scheduled if the worker thread
\* is alive; no other statement calls or schedules _process_queue
HqReschedule ==
    /\ hq_poll = "left_loop"
    /\ hq_poll' = IF hq_worker.alive THEN "scheduled" ELSE "none"
    /\ UNCHANGED << hq_worker, hq_queue, hq_is_running >>
    /\ HqOthersUnchanged

HqWorkerStep == HqPut \/ HqExit
HqPollStep == HqTimer \/ HqGet \/ HqEmpty \/ HqReschedule

NextHandoff ==
    \/ HqStart
    \/ HqPut
    \/ HqExit
    \/ HqTimer
    \/ HqGet
    \/ HqEmpty
    \/ HqReschedule

SpecHandoff == InitHandoff /\ [][NextHandoff]_vars

\* the thread runs on until its target returns, and the main loop of the
\* toolkit runs the timers it holds and the handlers it has started
SpecHandoffFair ==
    /\ InitHandoff /\ [][NextHandoff]_vars
    /\ WF_vars(HqStart) /\ WF_vars(HqWorkerStep) /\ WF_vars(HqPollStep)

(***************************************************************************)
(* run_transcription and the metrics sink of its caller, alone.            *)
(***************************************************************************)
\* the calls a caller makes with the one dict it keeps
MaxRuns == 2

\* the names _record_metric and line 536 write, in the order of the stages
StageMetrics ==
    << "validate_settings_seconds", "analyze_input_seconds",
       "segment_audio_seconds", "model_ready_seconds",
       "transcribe_segments_seconds", "export_output_seconds" >>

\* an entry of the caller's dict: the name and the call that measured it
SinkEntry(name, number) == [ name |-> name, number |-> number ]

InitMetrics ==
    /\ OtherUnitsIdle /\ FetchCacheIdle /\ TimelineIdle /\ HandoffIdle
    /\ MetricsIdle

SmOthersUnchanged == UNCHANGED << otherUnitVars, fcVars, tlVars, hqVars >>

\* an exception leaves the try block from this statement group; the
\* finally clause is next
SmLeave(left_at, how) ==
    /\ sm_pc' = "finally"
    /\ sm_call' = [ sm_call EXCEPT !.left_at = left_at, !.how = how ]
    /\ UNCHANGED << sm_metrics, stage_metrics >>

\* _record_metric, lines 493-495, and the next statement group
SmRecord(names, next_pc) ==
    /\ sm_metrics' = sm_metrics \cup names
    /\ sm_pc' = next_pc
    /\ UNCHANGED << stage_metrics, sm_call >>

\* lines 473-491: a call, with the caller's dict as stage_metrics or with
\* none; metrics = {}
SmCall ==
    /\ sm_pc = "idle" /\ sm_call.number < MaxRuns
    /\ \E supplied \in BOOLEAN :
        sm_call' = MetricsCall(sm_call.number + 1, supplied, "none", "none",
                               stage_metrics)
    /\ sm_metrics' = {}
    /\ sm_pc' = "resolve"
    /\ UNCHANGED stage_metrics
    /\ SmOthersUnchanged

\* lines 497-502, before the try statement: Path.expanduser raises
\* RuntimeError for a user it cannot find, Path.resolve ValueError for a
\* null byte, and the exception leaves the function
SmResolve ==
    /\ sm_pc = "resolve"
    /\ \E resolved \in BOOLEAN :
        IF resolved
        THEN /\ sm_pc' = "validate"
             /\ UNCHANGED << sm_metrics, stage_metrics, sm_call >>
        ELSE /\ sm_pc' = "idle"
             /\ sm_call' = [ sm_call EXCEPT !.left_at = "resolve",
                                            !.how = "raised" ]
             /\ UNCHANGED << sm_metrics, stage_metrics >>
    /\ SmOthersUnchanged

\* lines 504-516: ffmpeg lookup, validation, device, cancel check, and then
\* the record of the stage
SmValidate ==
    /\ sm_pc = "validate"
    /\ \E outcome \in { "done", "raised", "cancelled" } :
        IF outcome = "done"
        THEN SmRecord({ "validate_settings_seconds" }, "analyze")
        ELSE SmLeave("validate", outcome)
    /\ SmOthersUnchanged

\* lines 518-536: probe and plan, the record of the stage, and for a plan
\* that does not segment metrics["segment_audio_seconds"] = 0.0
SmAnalyze ==
    /\ sm_pc = "analyze"
    /\ \E should_segment \in BOOLEAN :
        IF should_segment
        THEN SmRecord({ "analyze_input_seconds" }, "split")
        ELSE SmRecord({ "analyze_input_seconds", "segment_audio_seconds" },
                      "model")
    /\ SmOthersUnchanged

\* lines 537-557: _extract_audio_and_split returns, raises or is cancelled
SmSplit ==
    /\ sm_pc = "split"
    /\ \E outcome \in { "done", "raised", "cancelled" } :
        IF outcome = "done"
        THEN SmRecord({ "segment_audio_seconds" }, "model")
        ELSE SmLeave("split", outcome)
    /\ SmOthersUnchanged

\* lines 559-566: cancel check, _get_or_load_model
SmModel ==
    /\ sm_pc = "model"
    /\ \E outcome \in { "done", "raised", "cancelled" } :
        IF outcome = "done"
        THEN SmRecord({ "model_ready_seconds" }, "transcribe")
        ELSE SmLeave("model", outcome)
    /\ SmOthersUnchanged

\* lines 582-596: _transcribe_segments
SmTranscribe ==
    /\ sm_pc = "transcribe"
    /\ \E outcome \in { "done", "raised", "cancelled" } :
        IF outcome = "done"
        THEN SmRecord({ "transcribe_segments_seconds" }, "export")
        ELSE SmLeave("transcribe", outcome)
    /\ SmOthersUnchanged

\* lines 634-645: cancel check, _save_output, the record, the return
SmExport ==
    /\ sm_pc = "export"
    /\ \E outcome \in { "done", "raised", "cancelled" } :
        IF outcome = "done"
        THEN /\ sm_metrics' = sm_metrics \cup { "export_output_seconds" }
             /\ sm_pc' = "finally"
             /\ sm_call' = [ sm_call EXCEPT !.left_at = "return",
                                            !.how = "returned" ]
             /\ UNCHANGED stage_metrics
        ELSE SmLeave("export", outcome)
    /\ SmOthersUnchanged

\* dict.update: the names written replace the entries of the same names
updated(sink, names, number) ==
    { e \in sink : e.name \notin names }
        \cup { SinkEntry(name, number) : name \in names }

\* lines 646-652 without stage_metrics.clear()
SmFinally_without_clear ==
    /\ sm_pc = "finally"
    /\ sm_metrics' = sm_metrics \cup { "total_pipeline_seconds" }
    /\ stage_metrics' = IF sm_call.supplied
                        THEN updated(stage_metrics, sm_metrics',
                                     sm_call.number)
                        ELSE stage_metrics
    /\ sm_pc' = "idle"
    /\ UNCHANGED sm_call
    /\ SmOthersUnchanged

\* lines 646-656, the finally clause: the total, then the dict of the
\* caller is cleared and updated from metrics
SmFinally ==
    /\ sm_pc = "finally"
    /\ sm_metrics' = sm_metrics \cup { "total_pipeline_seconds" }
    /\ stage_metrics' = IF sm_call.supplied
                        THEN updated({}, sm_metrics', sm_call.number)
                        ELSE stage_metrics
    /\ sm_pc' = "idle"
    /\ UNCHANGED sm_call
    /\ SmOthersUnchanged

NextMetrics ==
    \/ SmCall
    \/ SmResolve
    \/ SmValidate
    \/ SmAnalyze
    \/ SmSplit
    \/ SmModel
    \/ SmTranscribe
    \/ SmExport
    \/ SmFinally

SpecMetrics == InitMetrics /\ [][NextMetrics]_vars


(***************************************************************************)
(* Properties of the batch run.                                            *)
(***************************************************************************)
IsStarted(e) == e[1] = "item_started"
IsItemEnd(e) == e[1] \in {"item_done", "item_error"}

\* positions of the queue whose item_started event was put, in event order
StartedItems ==
    LET started == SelectSeq(ui_queue, IsStarted)
    IN  [ k \in 1..Len(started) |-> started[k][2] ]

TerminalEvent == IF ui_queue = << >> THEN None ELSE ui_queue[Len(ui_queue)][1]

FailedItems == { failures[k][1] : k \in 1..Len(failures) }

\* items are taken in queue order, and an item is started only after the
\* one before it has ended with item_done or item_error
OneAtATimeInOrder ==
    LET started == StartedItems
    IN  /\ \A k \in 1..Len(started) : started[k] = k
        /\ \A q \in 2..Len(ui_queue) :
            IsStarted(ui_queue[q]) =>
                \E p \in 1..(q - 1) : \E r \in (p + 1)..(q - 1) :
                    /\ IsStarted(ui_queue[p])
                    /\ ui_queue[p][2] = ui_queue[q][2] - 1
                    /\ IsItemEnd(ui_queue[r])
                    /\ ui_queue[r][2] = ui_queue[p][2]

\* the worker has left the loop of the items without cancellation; a run
\* that an exception outside the items has ended (gui.py 1031-1032) has not
RunEndedUncancelled ==
    w_pc = "done" /\ ~cancel_event /\ TerminalEvent # "error"

\* C1: under run_policy = stop and without cancellation, items are attempted
\* one at a time in queue order up to the first item that errors; nothing
\* after it is attempted; the summary has stopped_on_error, one failed item,
\* as many successes as there are items before it, and as pending exactly
\* the items after it, in queue order, none of them among the failed ones.
C1_StopPolicy ==
    /\ (run_policy = "stop" /\ ~cancel_event) => OneAtATimeInOrder
    /\ (RunEndedUncancelled /\ run_policy = "stop") =>
        LET k == Len(StartedItems) IN
        /\ TerminalEvent = "batch_done"
        /\ Len(failures) <= 1
        /\ batch_summary.total_items = Len(input_files)
        /\ batch_summary.success_items = Len(outputs)
        /\ batch_summary.failed_items = Len(failures)
        /\ IF failures = << >>
           THEN /\ k = Len(input_files)
                /\ Len(outputs) = Len(input_files)
                /\ ~batch_summary.stopped_on_error
                /\ pending_items = << >>
                /\ batch_summary.pending_items = 0
           ELSE /\ failures[1][1] = input_files[k]
                /\ batch_summary.stopped_on_error /\ stopped_on_error
                /\ batch_summary.failed_items = 1
                /\ batch_summary.success_items = k - 1
                /\ outputs = [ j \in 1..(k - 1) |-> OutputPath(input_files[j]) ]
                /\ pending_items = SubSeq(input_files, k + 1, Len(input_files))
                /\ batch_summary.pending_items = Len(input_files) - k
                /\ \A j \in 1..Len(pending_items) :
                        pending_items[j] \notin FailedItems

\* the example of the specification: three items, the second one fails
C1_Witness ==
    /\ RunEndedUncancelled /\ run_policy = "stop"
    /\ Len(input_files) = 3
    /\ failures # << >> /\ failures[1][1] = input_files[2]
    /\ batch_summary.success_items = 1 /\ batch_summary.failed_items = 1
    /\ batch_summary.pending_items = 1
    /\ pending_items = << input_files[3] >>

\* C2: under run_policy = continue and without cancellation, every item is
\* attempted exactly once, in queue order, one at a time, whatever failed
\* before it; the summary has no pending item, is not stopped on error, and
\* successes plus failures make up the total.
C2_ContinuePolicy ==
    /\ (run_policy = "continue" /\ ~cancel_event) => OneAtATimeInOrder
    /\ (RunEndedUncancelled /\ run_policy = "continue") =>
        /\ TerminalEvent = "batch_done"
        /\ StartedItems = [ k \in 1..Len(input_files) |-> k ]
        /\ batch_summary.total_items = Len(input_files)
        /\ batch_summary.pending_items = 0 /\ pending_items = << >>
        /\ ~batch_summary.stopped_on_error /\ ~stopped_on_error
        /\ batch_summary.success_items = Len(outputs)
        /\ batch_summary.failed_items = Len(failures)
        /\ batch_summary.success_items + batch_summary.failed_items
                = batch_summary.total_items
        /\ \A k \in 1..Len(input_files) :
            \/ input_files[k] \in FailedItems
            \/ \E j \in 1..Len(outputs) : outputs[j] = OutputPath(input_files[k])

\* the example of the specification: three items, the second one fails
C2_Witness ==
    /\ RunEndedUncancelled /\ run_policy = "continue"
    /\ Len(input_files) = 3
    /\ FailedItems = { input_files[2] }
    /\ batch_summary.success_items = 2 /\ batch_summary.failed_items = 1
    /\ batch_summary.pending_items = 0

ItemErrorEvents == { ui_queue[k][2] : k \in { j \in 1..Len(ui_queue) :
                                                ui_queue[j][1] = "item_error" } }

\* C3: once a cancellation check has read the flag as set, the run ends with
\* the terminal event cancelled, and the item at which the flag was read has
\* neither an item_error event nor an entry in the failures list.
C3_CancelNeverAFailure ==
    /\ (cancel_seen # 0) =>
        /\ cancel_seen \notin ItemErrorEvents
        /\ input_files[cancel_seen] \notin FailedItems
    /\ (w_pc = "done" /\ cancel_seen # 0) => TerminalEvent = "cancelled"


(***************************************************************************)
(* Properties of the YouTube resolver.                                     *)
(***************************************************************************)
\* a step in which an attempt of download_audio / fetch_video_info fails
\* with a diagnostic text (the primed last failure is that attempt's)
DlAttemptFails ==
    /\ dl_pc = "extract"
    /\ dl_pc' \in {"sleep", "attempt", "raised"}
    /\ dl_pc' = "raised" => dl_exc'.type = "TranscriptionError"

FetchAttemptFails ==
    /\ f_pc = "attempt" /\ fetchVars' # fetchVars
    /\ f_pc' \in {"sleep", "attempt", "raised"}

Retryable(failure) == failure.classification.retry_same_strategy

SwitchOnly(failure) ==
    /\ ~failure.classification.retry_same_strategy
    /\ failure.classification.try_next_strategy

Terminal(failure) ==
    /\ ~failure.classification.retry_same_strategy
    /\ ~failure.classification.try_next_strategy

BackoffMs(i) == Min(8000, 1200 * (2 ^ i))

\* C4: a retryable failure is followed by a backoff wait of
\* min(8.0, 1.2 * 2^i) seconds before retry number i and then by another
\* attempt with the same strategy; a strategy gets at most 2 retries in
\* download_audio and a client at most 1 in fetch_video_info; after a
\* retryable failure the next strategy is taken only when that budget is
\* used up.
C4_RetryProtocol ==
    /\ [](dl_retry \in 0..2 /\ f_retry \in 0..1)
    /\ [][(DlAttemptFails /\ Retryable(dl_last_failure')) =>
            IF dl_retry < 2
            THEN /\ dl_pc' = "sleep" /\ dl_wait' = BackoffMs(dl_retry)
                 /\ dl_strategy' = dl_strategy /\ dl_retry' = dl_retry
            ELSE dl_pc' = "raised" \/ dl_strategy' = dl_strategy + 1]_vars
    /\ [][(dl_pc = "sleep" /\ dl_pc' = "sleep") =>
            (dl_wait' <= dl_wait /\ dl_wait - dl_wait' <= 200)]_vars
    /\ [][(dl_pc = "sleep" /\ dl_pc' = "attempt") =>
            /\ dl_wait = 0
            /\ dl_strategy' = dl_strategy /\ dl_retry' = dl_retry + 1]_vars
    /\ [][(FetchAttemptFails /\ Retryable(f_last_failure')) =>
            IF f_retry < 1
            THEN /\ f_pc' = "sleep" /\ f_wait' = BackoffMs(f_retry)
                 /\ f_client' = f_client /\ f_retry' = f_retry
            ELSE f_pc' = "raised" \/ f_client' = f_client + 1]_vars
    /\ [][(f_pc = "sleep" /\ f_pc' # "sleep") =>
            /\ f_pc' = "attempt"
            /\ f_client' = f_client /\ f_retry' = f_retry + 1]_vars

\* the second retry of a later strategy is about to start
C4_Witness ==
    /\ dl_pc = "attempt" /\ dl_strategy = 3 /\ dl_retry = 2
    /\ Retryable(dl_last_failure)

\* C5: a failure that is not retryable but allows the next strategy ends the
\* attempts with the current strategy: the next attempt uses the next
\* strategy of the list (or the list is used up); strategies are taken in
\* list order and never revisited; after the first success there is no
\* further attempt.
C5_StrategySwitching ==
    /\ [][(DlAttemptFails /\ SwitchOnly(dl_last_failure')) =>
            IF dl_strategy < 5
            THEN /\ dl_pc' = "attempt" /\ dl_strategy' = dl_strategy + 1
                 /\ dl_retry' = 0
            ELSE dl_pc' = "raised"]_vars
    /\ [][(dl_pc \notin {"idle", "begin"} /\ dl_pc' # "idle") =>
            /\ dl_strategy' \in {dl_strategy, dl_strategy + 1}
            /\ dl_strategy' = dl_strategy + 1 => DlAttemptFails]_vars
    /\ [](dl_success => dl_pc \in {"finalize", "returned", "raised"})
    /\ [][(dl_pc \in {"finalize", "returned", "raised"}) =>
            (dl_pc' \notin {"attempt", "extract", "sleep"})]_vars
    /\ [][(FetchAttemptFails /\ SwitchOnly(f_last_failure')) =>
            IF f_client < 3
            THEN f_pc' = "attempt" /\ f_client' = f_client + 1 /\ f_retry' = 0
            ELSE f_pc' = "raised"]_vars
    /\ [][(f_pc \notin {"idle", "begin"} /\ f_pc' # "idle") =>
            f_client' \in {f_client, f_client + 1}]_vars
    /\ [][(f_pc \in {"returned", "raised"}) =>
            (f_pc' \notin {"attempt", "sleep"})]_vars

\* the third strategy is about to be tried after a strategy-specific failure
C5_Witness ==
    /\ dl_pc = "attempt" /\ dl_strategy = 3 /\ dl_retry = 0
    /\ SwitchOnly(dl_last_failure)
    /\ dl_last_failure.strategy_label = DownloadStrategies[2]

IsTerminalError(exc, operation, failure) ==
    /\ exc.type = "TranscriptionError"
    /\ StartsWith(exc.msg, "Failed to " \o operation \o ". ")
    /\ Contains(exc.msg, "Category: " \o failure.classification.category \o ".")
    /\ Contains(exc.msg, "Strategy: " \o failure.strategy_label \o ".")

\* C6: a failure whose classification allows neither a retry nor the next
\* strategy ends the operation at once, with an error that names the
\* category and the strategy of that attempt, at whatever strategy and retry
\* index it happens.
C6_TerminalAbort ==
    /\ [][(DlAttemptFails /\ Terminal(dl_last_failure')) =>
            /\ dl_pc' = "raised"
            /\ dl_last_failure'.strategy_label = DownloadStrategies[dl_strategy]
            /\ dl_last_failure'.classification.category \in
                 {"configuration", "auth_or_age_restriction", "geo_restricted",
                  "video_unavailable"}
            /\ IsTerminalError(dl_exc', "download audio from YouTube",
                               dl_last_failure')]_vars
    /\ [][(FetchAttemptFails /\ Terminal(f_last_failure')) =>
            /\ f_pc' = "raised"
            /\ f_last_failure'.strategy_label = ClientStrategies[f_client]
            /\ f_last_failure'.classification.category \in
                 {"configuration", "auth_or_age_restriction", "geo_restricted",
                  "video_unavailable"}
            /\ IsTerminalError(f_exc', "fetch YouTube metadata",
                               f_last_failure')]_vars

\* a terminal failure at the first retry of the third strategy
C6_Witness ==
    /\ dl_pc = "raised" /\ dl_strategy = 3 /\ dl_retry = 1
    /\ Terminal(dl_last_failure)
    /\ IsTerminalError(dl_exc, "download audio from YouTube", dl_last_failure)

IsExhaustedError(exc, operation, failure) ==
    /\ exc.type = "TranscriptionError"
    /\ StartsWith(exc.msg, "Failed to " \o operation \o " after all retry strategies.")
    /\ Contains(exc.msg, "Last category: " \o failure.classification.category \o ".")
    /\ Contains(exc.msg, "Last strategy: " \o failure.strategy_label \o ".")
    /\ Contains(exc.msg, "Details: " \o failure.raw_error)

DlExhausted ==
    /\ dl_pc = "raised" /\ ~dl_success /\ dl_exc.type = "TranscriptionError"
    /\ dl_last_failure # NoFailure /\ ~Terminal(dl_last_failure)

FetchExhausted ==
    /\ f_pc = "raised"
    /\ f_last_failure # NoFailure /\ ~Terminal(f_last_failure)

\* C7: when the strategies are used up without a success and without a
\* terminal error, the operation fails with an error that reports the
\* category, the strategy label and the raw text of the last failed attempt,
\* and that attempt was made with the last strategy of the list.
C7_Exhaustion ==
    /\ dl_strategy \in 1..5 /\ f_client \in 1..3
    /\ DlExhausted =>
        /\ dl_strategy = 5
        /\ dl_last_failure.strategy_label = DownloadStrategies[5]
        /\ dl_last_failure.raw_error \in yt_errors
        /\ IsExhaustedError(dl_exc, "download audio from YouTube", dl_last_failure)
    /\ FetchExhausted =>
        /\ f_client = 3
        /\ f_last_failure.strategy_label = ClientStrategies[3]
        /\ f_last_failure.raw_error \in yt_errors \cup {"Empty metadata response."}
        /\ IsExhaustedError(f_exc, "fetch YouTube metadata", f_last_failure)

\* download_audio has used up its five strategies, the last one after retries
C7_Witness ==
    /\ DlExhausted /\ dl_retry = 2
    /\ IsExhaustedError(dl_exc, "download audio from YouTube", dl_last_failure)

\* C8: every wait between retries ends at the first cancel check after the
\* flag is set, that is before another slice of the wait is slept: the
\* operation then ends as cancelled and starts no further attempt.
C8_WaitsInterruptible ==
    /\ [][(cancel_event /\ dl_pc = "sleep" /\ dlVars' # dlVars) =>
            /\ dl_pc' = "raised"
            /\ dl_exc'.type = "TranscriptionCancelled"]_vars
    /\ [][(cancel_event /\ f_pc = "sleep" /\ fetchVars' # fetchVars) =>
            /\ f_pc' = "raised"
            /\ f_exc'.type = "TranscriptionCancelled"]_vars

\* the part of C8 about download_audio
C8_DownloadWaitInterruptible ==
    [][(cancel_event /\ dl_pc = "sleep" /\ dlVars' # dlVars) =>
            /\ dl_pc' = "raised"
            /\ dl_exc'.type = "TranscriptionCancelled"]_vars


(***************************************************************************)
(* Properties of _classify_error.                                          *)
(***************************************************************************)
\* the categories in their precedence, with the flags of each
CategoryTable ==
    << [ category |-> "configuration", markers |-> ConfigurationMarkers,
         retry |-> FALSE, next |-> FALSE ],
       [ category |-> "auth_or_age_restriction", markers |-> AuthMarkers,
         retry |-> FALSE, next |-> FALSE ],
       [ category |-> "geo_restricted", markers |-> GeoMarkers,
         retry |-> FALSE, next |-> FALSE ],
       [ category |-> "video_unavailable", markers |-> UnavailableMarkers,
         retry |-> FALSE, next |-> FALSE ],
       [ category |-> "transient_rate_limit", markers |-> RateLimitMarkers,
         retry |-> TRUE, next |-> TRUE ],
       [ category |-> "transient_network", markers |-> NetworkMarkers,
         retry |-> TRUE, next |-> TRUE ],
       [ category |-> "transient_server", markers |-> ServerMarkers,
         retry |-> TRUE, next |-> TRUE ],
       [ category |-> "strategy_or_format", markers |-> StrategyMarkers,
         retry |-> FALSE, next |-> TRUE ],
       [ category |-> "access_denied", markers |-> AccessDeniedMarkers,
         retry |-> FALSE, next |-> TRUE ] >>

Unknown == [ category |-> "unknown", retry |-> FALSE, next |-> TRUE ]

Matches(row, low) ==
    \E k \in 1..Len(row.markers) : Contains(low, row.markers[k])

\* the first row of the table with a marker in the text, else unknown
FirstMatch(low) ==
    IF \E r \in 1..Len(CategoryTable) : Matches(CategoryTable[r], low)
    THEN CategoryTable[CHOOSE r \in 1..Len(CategoryTable) :
            /\ Matches(CategoryTable[r], low)
            /\ \A q \in 1..(r - 1) : ~Matches(CategoryTable[q], low)]
    ELSE Unknown

Classified(text, category, retry, next) ==
    c_text = text =>
        /\ c_result.category = category
        /\ c_result.retry_same_strategy = retry
        /\ c_result.try_next_strategy = next

\* C9: _classify_error gives the first category, in the fixed precedence,
\* one of whose markers occurs in the lower-cased text, else unknown, with
\* the fixed flags of that category; the three texts of the test get
\* transient_rate_limit, video_unavailable and strategy_or_format.
C9_ClassifyPrecedence ==
    c_pc = "done" =>
        /\ LET expected == FirstMatch(lower(c_text))
           IN  /\ c_result.category = expected.category
               /\ c_result.retry_same_strategy = expected.retry
               /\ c_result.try_next_strategy = expected.next
        /\ Classified("HTTP Error 429: Too Many Requests",
                      "transient_rate_limit", TRUE, TRUE)
        /\ Classified("This video is private",
                      "video_unavailable", FALSE, FALSE)
        /\ Classified("Requested format is not available",
                      "strategy_or_format", FALSE, TRUE)

\* a text with markers of two categories, the later one first in the text
C9_Witness ==
    /\ c_pc = "done"
    /\ c_text = "HTTP Error 429: Too Many Requests; This video is private"
    /\ c_result.category = "video_unavailable"

(***************************************************************************)
(* Properties of _transcribe_segments.                                     *)
(***************************************************************************)
\* the SegmentResult that the k-th model call has to leave
ResultOfCall(k) ==
    IF model_calls[k][2]
    THEN SegmentResult(k, "", model_calls[k][3])
    ELSE SegmentResult(k, strip(model_calls[k][3]), None)

\* C10: a model call that raises leaves a SegmentResult with empty text and
\* the error message and the loop goes on: the results are one per segment
\* handled so far, with indices 1, 2, ... in order, a successful one with
\* error none; the loop ends only after all n segments, and it is never the
\* failure of a segment that ends run_transcription with an error.
C10_SegmentFailureIsolation ==
    /\ Len(segment_items) = Len(model_calls)
    /\ \A k \in 1..Len(segment_items) :
        /\ model_calls[k][1] = k
        /\ segment_items[k] = ResultOfCall(k)
        /\ segment_items[k].error = None <=> ~model_calls[k][2]
    /\ t_pc = "segment" => (Len(segment_items) = t_idx - 1 /\ t_idx <= t_total)
    /\ t_pc \in {"joined", "save", "returned"} => Len(segment_items) = t_total
    /\ (t_pc = "raised" /\ Len(model_calls) > 0) =>
        \/ t_exc.type = "TranscriptionCancelled"
        \/ (Len(segment_items) = t_total /\ t_exc.type = "TranscriptionError")

\* the first of two segments failed and the item was transcribed all the same
C10_Witness ==
    /\ t_pc = "returned" /\ t_total = 2
    /\ model_calls[1][2] /\ ~model_calls[2][2]
    /\ segment_items[1].text = "" /\ segment_items[1].error = "CUDA out of memory"
    /\ segment_items[2].text = "hello" /\ segment_items[2].error = None


(***************************************************************************)
(* run_transcription: the temporary directory and the order of its work.   *)
(***************************************************************************)
TranscriptionLeft == t_pc \in { "returned", "raised" }

\* C11: when run_transcription has been left, by its return or by any
\* exception, the temporary segment directory is gone if keep_segments is
\* false, and a directory that was created is still there if it is true
C11_TempDirCleanup ==
    TranscriptionLeft =>
        /\ ~t_args.keep_segments => temp_dir = "absent"
        /\ (t_args.keep_segments /\ "mkdir" \in t_work) => temp_dir = "present"

\* a run that had created the directory failed or was cancelled, and the
\* directory is gone
C11_Witness ==
    /\ t_pc = "raised" /\ ~t_args.keep_segments
    /\ "mkdir" \in t_work /\ temp_dir = "absent"

\* C17: once the plan is made for an input of known duration of at most
\* 900 s, it says not to segment, whatever the device and the requested
\* chunk length, and the run goes on with the source file as its only
\* segment: no directory is made and the splitter is not run
C17_ShortInputNotSegmented ==
    ( /\ "probe" \in t_work
      /\ t_input.duration # NoDuration
      /\ t_input.duration <= 900 * 1000 )
    => /\ ~t_plan.should_segment
       /\ t_plan.effective_segment_seconds
            = clamp_segment_seconds(t_args.segment_time_sec)
       /\ t_total = 1
       /\ t_work \cap { "mkdir", "split" } = {}
       /\ temp_dir = "absent"

\* an input of exactly 900 s was transcribed without being split, on an
\* accelerated device with a requested chunk length above 600
C17_Witness ==
    /\ "transcribe" \in t_work
    /\ t_input.duration = 900 * 1000
    /\ t_device # "cpu" /\ t_args.segment_time_sec > 600
    /\ ~t_plan.should_segment /\ "split" \notin t_work

\* the input of the call is missing, or its format or one of the tokens of
\* the call is not supported
InvalidConfig ==
    \/ ~validate_and_detect_input_format(
            "", t_input.exists, t_input.extension,
            t_args.selected_input_format).ok
    \/ ~resolve_compute_device(t_args.compute_device, t_input.hw).ok
    \/ lower(strip(t_args.output_format)) \notin EXPORT_FORMATS

\* C19: a call with a missing input, an unsupported or mismatching input
\* format, an unsupported device token or an unsupported output format token
\* never splits audio, loads a model or transcribes a segment
C19_ConfigErrorsAbortFirst ==
    (t_pc \notin { "idle", "validate" } /\ t_input.ffmpeg /\ InvalidConfig)
    => t_work \cap { "mkdir", "split", "model", "transcribe" } = {}

C18_AdaptiveChunkLength ==
    (p_pc = "done" /\ p_duration # NoDuration /\ p_duration > 900 * 1000)
    => LET e == p_plan.effective_segment_seconds
           long == p_duration >= 7200 * 1000
           medium == p_duration >= 3600 * 1000 /\ p_duration < 7200 * 1000
       IN  /\ p_plan.should_segment
           /\ e >= 1 /\ e <= 600
           /\ (p_device = "cpu" /\ long) => e <= 90
           /\ (p_device = "cpu" /\ medium) => e <= 120
           /\ (p_device # "cpu" /\ long) => e >= 240
           /\ (p_device # "cpu" /\ medium) => e >= 180
           /\ (~long /\ ~medium)
                => e = (IF p_requested < 1 THEN 1
                        ELSE IF p_requested > 600 THEN 600 ELSE p_requested)

\* two hours on an accelerated device with a request above the range: the
\* chunk length is the upper end of the range
C18_Witness ==
    /\ p_pc = "done" /\ p_duration = 7200 * 1000 /\ p_device = "cuda"
    /\ p_requested = 1000 /\ p_plan.effective_segment_seconds = 600

(***************************************************************************)
(* The model cache.                                                        *)
(***************************************************************************)
\* the key and the instance the history says the cache holds: those of the
\* most recent populating load, unless a clear or an eviction came after it
LoggedKey ==
    IF mc_last_change[1] = "populate" THEN mc_last_change[3] ELSE NoKey
LoggedInstance ==
    IF mc_last_change[1] = "populate" THEN mc_last_change[4] ELSE 0

ReusingAcquire(t) == mc_call[t].op = "acquire" /\ mc_call[t].reuse_model
FreshAcquire(t) == mc_call[t].op = "acquire" /\ ~mc_call[t].reuse_model

\* C12: the cache holds the key of the most recent populating load unless a
\* clear or an eviction came after it; an acquire with reuse finds a hit
\* exactly when the cache holds its key at the time it has the lock; a hit
\* returns the cached instance and loads nothing, and every other return
\* signals no hit
C12_HitIffCacheHoldsKey ==
    /\ [](mc_key = LoggedKey /\ mc_instance = LoggedInstance)
    /\ [][\A t \in Threads :
            /\ ( /\ ReusingAcquire(t)
                 /\ mc_pc[t] = "wait_lock" /\ mc_pc'[t] = "locked" )
               => ((mc_todo'[t] = << "hit" >>) <=> (mc_key = mc_call[t].key))
            /\ ( /\ mc_call[t].op = "acquire"
                 /\ mc_pc[t] = "locked" /\ mc_pc'[t] = "returned" )
               => IF mc_todo[t] = << "hit" >>
                  THEN /\ mc_ret'[t] = Ret(mc_instance, TRUE, FALSE)
                       /\ mc_instance # 0
                       /\ UNCHANGED << mc_key, mc_instance, mc_next >>
                  ELSE ~mc_ret'[t].hit
         ]_vars

\* (base, cpu) was acquired twice with reuse and nothing else was called:
\* the second call is a hit on the instance the first one loaded
C12_Witness ==
    /\ mc_calls = 2
    /\ \E t \in Threads :
        /\ mc_pc[t] = "returned"
        /\ mc_call[t] = Acquire(<< "base", "cpu" >>, TRUE)
        /\ mc_ret[t] = Ret(1, TRUE, FALSE)
    /\ \E u \in Threads :
        mc_last_change = Event("populate", u, << "base", "cpu" >>, 1)

\* C13: the key and the instance of the cache are both set or both empty;
\* an acquire with reuse starts its load only when the cache is empty, so
\* an instance under another key has been evicted by then; and a thread
\* whose last event is an eviction still has the release hook to run before
\* its load
C13_EvictBeforeLoad ==
    /\ (mc_key = NoKey) <=> (mc_instance = 0)
    /\ \A t \in Threads :
        /\ ( /\ ReusingAcquire(t) /\ mc_pc[t] = "locked"
             /\ mc_todo[t] # << >> /\ Head(mc_todo[t]) = "load" )
           => mc_instance = 0 /\ mc_key = NoKey
        /\ mc_prev[t] = "evict"
           => /\ mc_pc[t] = "locked" /\ mc_lock = t
              /\ mc_todo[t] = << "release", "load", "populate" >>

\* a thread that found another key in the cache has evicted the instance
\* and run the hook, and is about to load
C13_Witness ==
    \E t \in Threads :
        /\ ReusingAcquire(t) /\ mc_pc[t] = "locked"
        /\ mc_todo[t] = << "load", "populate" >>
        /\ mc_prev[t] = "release"
        /\ mc_last_change[1] = "evict" /\ mc_last_change[2] = t
        /\ mc_last_change[3] # mc_call[t].key
        /\ mc_last_change[4] # 0

\* C14: while an acquire without reuse has the lock the cached key and
\* instance do not change, and when it returns it has loaded a model that
\* did not exist before and signals no hit
C14_NoReuseLeavesCache ==
    [][\A t \in Threads :
        (FreshAcquire(t) /\ mc_pc[t] = "locked")
        => /\ UNCHANGED << mc_key, mc_instance >>
           /\ mc_pc'[t] = "returned"
              => \/ mc_ret'[t] = Ret(0, FALSE, TRUE)
                 \/ /\ mc_ret'[t] = Ret(mc_next, FALSE, FALSE)
                    /\ mc_next' = mc_next + 1
                    /\ mc_ret'[t].instance # mc_instance
      ]_vars

\* the cache holds the key an acquire without reuse asked for, and the call
\* has returned another instance
C14_Witness ==
    \E t \in Threads :
        /\ FreshAcquire(t) /\ mc_pc[t] = "returned"
        /\ mc_key = mc_call[t].key /\ mc_instance = 1
        /\ mc_ret[t] = Ret(2, FALSE, FALSE)

\* C15: at most one thread is in a locked section, and it holds the lock;
\* when two threads have each acquired the same key with reuse, nothing else
\* was called and no load failed, one model was loaded (the next one would
\* be the second) and one of the two calls is a hit on it
C15_LoadEvictSerialized ==
    /\ \A t1, t2 \in Threads :
        (mc_pc[t1] = "locked" /\ mc_pc[t2] = "locked") => t1 = t2
    /\ \A t \in Threads : mc_pc[t] = "locked" => mc_lock = t
    /\ \A t1, t2 \in Threads :
        ( /\ t1 # t2 /\ mc_calls = 2
          /\ ReusingAcquire(t1) /\ mc_call[t2] = mc_call[t1]
          /\ mc_pc[t1] = "returned" /\ mc_pc[t2] = "returned"
          /\ ~mc_ret[t1].raised /\ ~mc_ret[t2].raised )
        => /\ mc_next = 2
           /\ mc_ret[t1].hit # mc_ret[t2].hit
           /\ mc_ret[t1].instance = mc_ret[t2].instance
           /\ mc_ret[t1].instance = mc_instance

\* the second thread entered _get_or_load_model for the same key while the
\* first was inside; both have returned, one with a hit
C15_Witness ==
    /\ mc_calls = 2 /\ mc_overlap
    /\ \E t1, t2 \in Threads :
        /\ t1 # t2
        /\ ReusingAcquire(t1) /\ mc_call[t2] = mc_call[t1]
        /\ mc_pc[t1] = "returned" /\ mc_pc[t2] = "returned"
        /\ ~mc_ret[t1].hit /\ mc_ret[t2] = Ret(mc_ret[t1].instance, TRUE, FALSE)

(***************************************************************************)
(* The metadata cache.                                                     *)
(***************************************************************************)
\* C16: with a positive TTL, a read of a url gives a new dict, held by
\* nothing else, with the contents the info had when the setter was last
\* called for the trimmed url, as long as no more than the TTL has passed
\* since that call; it gives none when more has passed or when the setter
\* was not called; whatever was set or read for other urls and whatever
\* callers did to the dicts they hold
C16_MetadataCacheTtl ==
    [][(md_ret'.n # md_ret.n /\ md_ttl > 0)
       => LET key == normalize_cache_key(md_ret'.url)
          IN  IF key \in MdKeys /\ md_history[key].made
                 /\ md_now - md_history[key].at <= md_ttl
              THEN /\ md_ret'.obj # 0
                   /\ md_ret'.obj \notin 1..Len(md_heap)
                   /\ \A k \in MdKeys : md_cache'[k].obj # md_ret'.obj
                   /\ md_heap'[md_ret'.obj] = md_history[key].info
              ELSE md_ret'.obj = 0
      ]_vars

\* the info was set for "u1" and then changed by the caller, and so was a
\* first copy read from the cache; a read of " u1 " when exactly the TTL
\* has passed gives the contents that were set
C16_Witness ==
    /\ md_ttl > 0 /\ md_ops = 3
    /\ md_history["u1"] = SetCall(TRUE, md_now - md_ttl, "A")
    /\ md_heap[1] = "X"
    /\ md_ret.url = " u1 " /\ md_ret.obj # 0
    /\ md_heap[md_ret.obj] = "A"
    /\ \E obj \in md_held \ { 1, md_ret.obj } : md_heap[obj] = "X"


(***************************************************************************)
(* The text returned by _transcribe_segments.                              *)
(***************************************************************************)
\* the texts of the first k SegmentResults, each followed by a line break
RECURSIVE LinesUpTo(_)
LinesUpTo(k) ==
    IF k = 0 THEN "" ELSE LinesUpTo(k - 1) \o segment_items[k].text \o "\n"

\* _transcribe_segments has returned its result to run_transcription
SegmentsReturned == t_pc \in { "save", "returned" }

\* C21: when _transcribe_segments completes, full_text is the texts of its
\* SegmentResults joined by line breaks in segment order and then trimmed
\* of surrounding whitespace, where a segment that failed stands with the
\* empty string at its position.
C21_FullTextIsJoinedTexts ==
    SegmentsReturned =>
        /\ Len(segment_items) = t_total
        /\ \A k \in 1..t_total :
            /\ segment_items[k].index = k
            /\ model_calls[k][2] => segment_items[k].text = ""
        /\ full_text = strip(LinesUpTo(t_total))
        /\ Len(full_text) > 0 =>
            /\ SubSeq(full_text, 1, 1) \notin Whitespace
            /\ SubSeq(full_text, Len(full_text), Len(full_text)) \notin Whitespace

\* two segments, the first failed: the text is that of the second alone,
\* without the line break that followed the empty first part
C21_Witness ==
    /\ SegmentsReturned /\ t_total = 2
    /\ model_calls[1][2] /\ ~model_calls[2][2]
    /\ full_text_parts = << "", "hello" >>
    /\ full_text = "hello"


(***************************************************************************)
(* The name _save_output writes to.                                        *)
(***************************************************************************)
\* the name with this counter was taken when the call chose
TakenBefore(counter) ==
    OutputName(so_last.base_name, counter, so_last.output_format)
        \in so_last.before

\* C22: _save_output never writes over a file: it writes to
\* {stem}_transcript_{timestamp}.{fmt} when no file has that name, and to
\* the name with the smallest counter _01, _02, ... that no file has when
\* one does; the name it chose was not that of a file when it chose it,
\* however many names were taken.
C22_SaveNeverOverwrites ==
    so_last.made =>
        /\ so_last.output_path \notin so_last.before
        /\ so_last.output_path \in so_files
        /\ \E n \in 0..(MaxColliding + MaxSaves + 1) :
            /\ so_last.output_path =
                   OutputName(so_last.base_name, n, so_last.output_format)
            /\ \A k \in 0..(n - 1) : TakenBefore(k)
        /\ ~TakenBefore(0) =>
            so_last.output_path =
                so_last.base_name \o "." \o so_last.output_format

\* the name without a counter and those with _01 to _09 were taken, and
\* so was the name with _10 after a first call: the second call in the
\* same second wrote to the name with _11
C22_Witness ==
    /\ so_saves = 2
    /\ Cardinality(so_last.before) = 11
    /\ "talk_transcript_20240131_093000_09.txt" \in so_last.before
    /\ so_last.output_path = "talk_transcript_20240131_093000_11.txt"


(***************************************************************************)
(* The file download_audio returns.                                        *)
(***************************************************************************)
\* the regular files of the download directory
RegularFiles == Range(loc_dir) \ loc_not_files

\* the places the claim names, in its order: the prepared name with .wav,
\* the name the progress hook reported (as reported and with .wav), the
\* names the glob on the video id finds
NamedPlaces ==
    << with_suffix(loc_prepared, ".wav") >>
    \o (IF loc_hook = "" THEN << >>
        ELSE << loc_hook, with_suffix(loc_hook, ".wav") >>)
    \o (IF loc_video_id = "" THEN << >>
        ELSE sorted_paths({ name \in Range(loc_dir) :
                EndsWith(name, "_" \o loc_video_id \o ".wav") }))

\* C23: after a successful download attempt download_audio returns the
\* first existing regular file among the prepared filename with a .wav
\* suffix, the filename the progress hook reported and the files the glob
\* on the video id finds, in this order; when none of them is found it
\* fails with the output-not-found error.
C23_LocatesByFallbackChain ==
    loc_pc = "done" =>
        IF \E k \in 1..Len(NamedPlaces) : NamedPlaces[k] \in RegularFiles
        THEN \E k \in 1..Len(NamedPlaces) :
                /\ NamedPlaces[k] \in RegularFiles
                /\ \A j \in 1..(k - 1) : NamedPlaces[j] \notin RegularFiles
                /\ loc_result = Ok(resolve(NamedPlaces[k]))
        ELSE loc_result = Failed(OUTPUT_NOT_FOUND)

\* none of the named places holds a file, the directory holds another
\* .wav file, and the call returned it
C23_Witness ==
    /\ loc_pc = "done"
    /\ loc_prepared = "NA.webm" /\ loc_hook = "" /\ loc_video_id = "abc"
    /\ loc_dir = << "old.wav", "abc.wav" >> /\ loc_not_files = {}
    /\ loc_result = Ok(resolve("old.wav"))

\* the part of C23 that holds: when a named place holds a regular file
\* the first such place is returned, and the call fails with the
\* output-not-found error exactly when in addition to no named place
\* holding a file the directory holds no .wav entry at all
C23_ChainThenNewestWav ==
    loc_pc = "done" =>
        /\ (\E k \in 1..Len(NamedPlaces) : NamedPlaces[k] \in RegularFiles)
            => \E k \in 1..Len(NamedPlaces) :
                /\ NamedPlaces[k] \in RegularFiles
                /\ \A j \in 1..(k - 1) : NamedPlaces[j] \notin RegularFiles
                /\ loc_result = Ok(resolve(NamedPlaces[k]))
        /\ loc_result = Failed(OUTPUT_NOT_FOUND)
            <=> /\ \A k \in 1..Len(NamedPlaces) :
                        NamedPlaces[k] \notin RegularFiles
                /\ \A name \in Range(loc_dir) : ~EndsWith(name, ".wav")


(***************************************************************************)
(* The download directory after an item.                                   *)
(***************************************************************************)
\* the worker is between two items or has left the loop
BetweenItems == w_pc \in { "loop", "done" }

\* C24: when a YouTube item finishes, by success, by a failure in the
\* download or in the transcription, or by a cancel, and before the next
\* item starts, the downloaded audio file and the download directory are
\* deleted, unless a delete failed for a reason outside the program; such
\* a failure is swallowed: each finished item has the one outcome it had.
C24_DownloadCleanedUp ==
    /\ (BetweenItems /\ ~os_fault_seen) => (yt_files = {} /\ ~yt_dir_exists)
    /\ w_pc = "loop" => Len(outputs) + Len(failures) = index - 1

\* the cancel flag was set after the download had produced the file and
\* before the check of line 703: the item ended, no delete failed, and the
\* file and the directory are still there
C24_Witness ==
    /\ w_pc = "done" /\ ~os_fault_seen /\ cancel_seen = 1
    /\ yt_files = { "wav" } /\ yt_dir_exists
    /\ Len(failures) = 1

\* the part of C24 that holds: a file download_audio returned is deleted
\* with its directory when the item ends, if no delete fails and the
\* download left no unfinished data; a swallowed failure leaves the
\* outcomes as they were
C24_ReturnedFileCleanedUp ==
    /\ [][(downloaded_audio_path /\ ~downloaded_audio_path'
             /\ ~os_fault_seen' /\ "part" \notin yt_files)
           => (yt_files' = {} /\ ~yt_dir_exists')]_vars
    /\ [](w_pc = "loop" => Len(outputs) + Len(failures) = index - 1)


(***************************************************************************)
(* The queue after a batch.                                                *)
(***************************************************************************)
\* the item at position k of the run failed, or was still to come when the
\* run stopped at the first error
FailedOrPending(k) ==
    \/ \E j \in 1..Len(failures) : failures[j][1] = input_files[k]
    \/ stopped_on_error /\ k > Len(outputs) + Len(failures)

\* the items of the run from position k on that failed or were pending
RECURSIVE FailedOrPendingFrom(_)
FailedOrPendingFrom(k) ==
    IF k > Len(input_files) THEN << >>
    ELSE (IF FailedOrPending(k) THEN << input_files[k] >> ELSE << >>)
         \o FailedOrPendingFrom(k + 1)

\* _process_queue takes the batch_done event of a run made from the queue
TakesBatchDone ==
    /\ ~ui_handled /\ ui_handled'
    /\ ui_queue[Len(ui_queue)][1] = "batch_done"

\* C25: when a run made from the queue ends with batch_done, the queue
\* keeps exactly the items that failed, and those still pending when the
\* run stopped at the first error, in the order they had; the items that
\* succeeded are gone; last_failed_items is the path or URL of each failed
\* item as it stood in the queue.  (retain_items keeps the items whose
\* lower-cased value is in the set it is given, in their order.)
C25_QueueKeepsFailedAndPending ==
    [][TakesBatchDone =>
        /\ last_failed_items' = [ k \in 1..Len(failures) |-> failures[k][1] ]
        /\ \A k \in 1..Len(failures) : InSeq(last_failed_items'[k], input_files)
        /\ active_queue_mode =>
            /\ file_queue' = FailedOrPendingFrom(1)
            /\ \A k \in 1..Len(outputs) :
                    ~InSeq(input_files[k], file_queue') \/ FailedOrPending(k)
      ]_vars

\* of three queued items the first succeeded, "B.wav" failed and stopped
\* the run: the queue holds "B.wav" and the item behind it
C25_Witness ==
    /\ ui_handled /\ stopped_on_error
    /\ Len(input_files) = 3 /\ Len(outputs) = 1
    /\ input_files[2] = "B.wav"
    /\ file_queue = SubSeq(input_files, 2, 3)
    /\ last_failed_items = << "B.wav" >>


\* the positions of the paths that the call is to add: not empty, a regular
\* file, and equal ignoring case to no item of the queue and to no earlier
\* regular file of the same call
PathsToAdd(before, paths) ==
    { k \in 1..Len(paths) :
        /\ paths[k] # ""
        /\ is_file(resolve_path(paths[k]))
        /\ item_lower(resolve_path(paths[k])) \notin lower_items(before)
        /\ \A j \in 1..(k - 1) :
            ~ /\ paths[j] # ""
              /\ is_file(resolve_path(paths[j]))
              /\ item_lower(resolve_path(paths[j]))
                    = item_lower(resolve_path(paths[k])) }

\* the resolved paths at the given positions, in the order of the call
RECURSIVE ResolvedAt(_, _, _)
ResolvedAt(paths, positions, k) ==
    IF k > Len(paths) THEN << >>
    ELSE (IF k \in positions THEN << resolve_path(paths[k]) >> ELSE << >>)
            \o ResolvedAt(paths, positions, k + 1)

NoTwoEqualIgnoringCase(items) ==
    \A i, j \in 1..Len(items) :
        i # j => item_lower(items[i]) # item_lower(items[j])

\* C26: enqueue_local_paths adds exactly the paths that are not empty, are
\* regular files and are not queued yet ignoring case (earlier in the same
\* call included); it returns (added, skipped) with added + skipped the
\* number of paths, the queue grows by added, and after any calls of
\* enqueue_local_paths and append_unique on an empty queue no two items are
\* equal ignoring case.
C26_EnqueueAddsNewRegularFiles ==
    /\ NoTwoEqualIgnoringCase(q_items)
    /\ q_last.op = "enqueue_local_paths" =>
        LET to_add == PathsToAdd(q_last.before, q_last.paths)
        IN  /\ q_items = q_last.before \o ResolvedAt(q_last.paths, to_add, 1)
            /\ q_last.ret[1] = Cardinality(to_add)
            /\ q_last.ret[1] + q_last.ret[2] = Len(q_last.paths)
            /\ Len(q_items) = Len(q_last.before) + q_last.ret[1]

\* a call that adds one file and skips the same file in another case
C26_Witness ==
    /\ q_last.op = "enqueue_local_paths"
    /\ q_last.paths = << "a.wav", "/w/A.wav" >>
    /\ q_last.ret = << 1, 1 >>
    /\ q_last.before # << >>


\* the Python indices of the call that are indices of the queue
ValidIndices(call) ==
    { idx \in Range(call.indices) : 0 <= idx /\ idx < Len(call.before) }

\* the items that are not at the given Python indices, in their order
RECURSIVE ItemsNotAt(_, _, _)
ItemsNotAt(items, indices, k) ==
    IF k > Len(items) THEN << >>
    ELSE (IF (k - 1) \in indices THEN << >> ELSE << items[k] >>)
            \o ItemsNotAt(items, indices, k + 1)

IsPermutationOf(items, before) ==
    /\ Len(items) = Len(before)
    /\ \A k \in 1..Len(before) :
        Cardinality({ i \in 1..Len(items) : items[i] = before[k] })
            = Cardinality({ i \in 1..Len(before) : before[i] = before[k] })

\* the call moved every selected item by `by` positions, kept the order of
\* the others and returned the new indices of the selected items
MovedBy(call, items, by) ==
    LET selected == ValidIndices(call)
        target == { idx + by : idx \in selected }
    IN  /\ \A idx \in selected : items[idx + by + 1] = call.before[idx + 1]
        /\ ItemsNotAt(items, target, 1) = ItemsNotAt(call.before, selected, 1)
        /\ call.ret = Ascending(target)

\* the call left the queue as it was and returned the selection
LeftInPlace(call, items) ==
    /\ items = call.before
    /\ call.ret = Ascending(ValidIndices(call))

MoveAsClaimed(call, items) ==
    LET selected == ValidIndices(call)
    IN  /\ call.op \in { "move_up", "move_down" } =>
            IsPermutationOf(items, call.before)
        /\ call.op = "move_up" =>
            IF selected = {} \/ 0 \in selected
            THEN LeftInPlace(call, items)
            ELSE MovedBy(call, items, 0 - 1)
        /\ call.op = "move_down" =>
            IF selected = {} \/ (Len(call.before) - 1) \in selected
            THEN LeftInPlace(call, items)
            ELSE MovedBy(call, items, 1)

TokenOf(call) == lower(strip(call.requested_device))

Resolved(call, name, fp16) ==
    call.result.ok /\ call.result.value = Device(name, fp16)

FailsWith(call, text) == ~call.result.ok /\ StartsWith(call.result.value, text)

DEVICE_UNAVAILABLE == "GPU was selected, but "
INVALID_CONFIG == "Unsupported compute device: "

\* the backend can be asked for only when PyTorch can be imported
CudaAvailable(call) == call.hw.torch /\ call.hw.cuda
MpsAvailable(call) == call.hw.torch /\ call.hw.mps

\* C28: "cpu" resolves to (cpu, false); "gpu" to (cuda, true) when CUDA is
\* available, else to (mps, false) when MPS is, else it fails with the
\* device-unavailable error; "auto" prefers the same and falls back to
\* (cpu, false) without ever failing, also when PyTorch cannot be imported;
\* any other token fails with the invalid-configuration error; fp16 is set
\* exactly when the device is cuda.
C28_DeviceResolution ==
    dev_call # NoDeviceCall =>
        /\ TokenOf(dev_call) = "cpu" => Resolved(dev_call, "cpu", FALSE)
        /\ TokenOf(dev_call) = "gpu" =>
            IF CudaAvailable(dev_call) THEN Resolved(dev_call, "cuda", TRUE)
            ELSE IF MpsAvailable(dev_call)
            THEN Resolved(dev_call, "mps", FALSE)
            ELSE FailsWith(dev_call, DEVICE_UNAVAILABLE)
        /\ TokenOf(dev_call) = "auto" =>
            IF CudaAvailable(dev_call) THEN Resolved(dev_call, "cuda", TRUE)
            ELSE IF MpsAvailable(dev_call)
            THEN Resolved(dev_call, "mps", FALSE)
            ELSE Resolved(dev_call, "cpu", FALSE)
        /\ TokenOf(dev_call) \notin { "cpu", "gpu", "auto" } =>
            FailsWith(dev_call, INVALID_CONFIG)
        /\ dev_call.result.ok =>
            (dev_call.result.value.fp16 <=> dev_call.result.value.name = "cuda")

\* "auto" on a machine where PyTorch cannot be imported
C28_Witness ==
    /\ dev_call.requested_device = "AUTO"
    /\ ~dev_call.hw.torch
    /\ dev_call.hw.cuda
    /\ Resolved(dev_call, "cpu", FALSE)


\* the pieces of a text between the occurrences of a separator
RECURSIVE SplitAt(_, _)
SplitAt(text, separator) ==
    LET found == { k \in 1..(Len(text) - Len(separator) + 1) :
                     SubSeq(text, k, k + Len(separator) - 1) = separator }
        first == CHOOSE k \in found : \A other \in found : k <= other
    IN  IF found = {} THEN << text >>
        ELSE << SubSeq(text, 1, first - 1) >>
                \o SplitAt(SubSeq(text, first + Len(separator), Len(text)),
                           separator)

DigitValue(char) == (CHOOSE d \in 1..10 : Digits[d] = char) - 1

IsNumber(text) ==
    /\ text # ""
    /\ \A k \in 1..Len(text) :
        \E d \in 1..10 : Digits[d] = SubSeq(text, k, k)

RECURSIVE NumberOf(_)
NumberOf(text) ==
    IF text = "" THEN 0
    ELSE 10 * NumberOf(SubSeq(text, 1, Len(text) - 1))
            + DigitValue(SubSeq(text, Len(text), Len(text)))

\* the fields of HH:MM:SS,mmm, or << >> when the text is not of that form
ClockFields(text) ==
    LET parts == SplitAt(text, ":")
        tail == IF Len(parts) = 3 THEN SplitAt(parts[3], ",") ELSE << >>
    IN  IF /\ Len(parts) = 3 /\ Len(tail) = 2
           /\ IsNumber(parts[1]) /\ Len(parts[1]) >= 2
           /\ IsNumber(parts[2]) /\ Len(parts[2]) = 2
           /\ IsNumber(tail[1]) /\ Len(tail[1]) = 2
           /\ IsNumber(tail[2]) /\ Len(tail[2]) = 3
        THEN << NumberOf(parts[1]), NumberOf(parts[2]), NumberOf(tail[1]),
                NumberOf(tail[2]) >>
        ELSE << >>

\* the clock reads the time rounded to the nearest millisecond
ReadsAs(text, seconds) ==
    LET fields == ClockFields(text)
        total_millis == ((fields[1] * 60 + fields[2]) * 60 + fields[3]) * 1000
                            + fields[4]
        distance == total_millis * TICKS_PER_MILLI - seconds
    IN  /\ fields # << >>
        /\ fields[2] < 60 /\ fields[3] < 60 /\ fields[4] < 1000
        /\ 2 * distance <= TICKS_PER_MILLI
        /\ 2 * (0 - distance) <= TICKS_PER_MILLI

\* the block has the number and carries the times and the text of the item
BlockIsItem(block, number, item) ==
    LET lines == SplitAt(block, "\n")
        times == IF Len(lines) >= 2 THEN SplitAt(lines[2], " --> ")
                 ELSE << >>
    IN  /\ Len(lines) = 3
        /\ lines[1] = decimal(number)
        /\ Len(times) = 2
        /\ ReadsAs(times[1], item.start_seconds)
        /\ ReadsAs(times[2], item.end_seconds)
        /\ lines[3] = item.text

\* C29: the HH:MM:SS,mmm start and end that export_srt writes for a
\* timeline item read back as its start and end rounded to the nearest
\* millisecond, with minutes and seconds below 60 and milliseconds below
\* 1000, and the blocks are numbered 1, 2, ... in the order of the timeline.
C29_SrtTimesRoundTrip ==
    srt_written # NothingWritten =>
        LET timeline == get_timeline(srt_payload)
            blocks == IF srt_written = "\n" THEN << >>
                      ELSE SplitAt(SubSeq(srt_written, 1, Len(srt_written) - 1),
                                   "\n\n")
        IN  /\ Len(blocks) = Len(timeline)
            /\ \A number \in 1..Len(timeline) :
                BlockIsItem(blocks[number], number, timeline[number])

\* two blocks written out of order, one of them past the hundredth hour
\* and one ending on a half that is rounded
C29_Witness ==
    /\ Len(srt_payload.timeline_segments) = 2
    /\ srt_payload.timeline_segments[1]
            = TimelineItem(1440000001, 0, "hello")
    /\ srt_payload.timeline_segments[2] = TimelineItem(14399998, 7, "hello")
    /\ srt_written = "1\n01:00:00,000 --> 01:00:01,000\nhello\n\n"
                        \o "2\n100:00:00,000 --> 100:00:01,000\nhello\n"


\* the stage run_transcription is in: 0 before and after the call
StageAt(pc) ==
    CASE pc = "validate" -> 1
      [] pc = "analyze" -> 2
      [] pc = "split_run" -> 3
      [] pc \in { "model", "loading" } -> 4
      [] pc \in { "transcribe", "segment", "model_call", "joined" } -> 5
      [] pc = "save" -> 6
      [] pc = "returned" -> 7
      [] OTHER -> 0

\* a step of the call stays in its stage, goes on to the next one, passes
\* over the splitting exactly when the plan says not to segment, or leaves
\* the call by an exception
StagesInOrder ==
    \/ t_pc' = t_pc
    \/ t_pc' = "idle" /\ t_pc \in { "returned", "raised" }
    \/ t_pc = "idle" /\ t_pc' = "validate"
    \/ t_pc' = "raised" /\ StageAt(t_pc) \in 1..6
    \/ /\ StageAt(t_pc) \in 1..6
       /\ StageAt(t_pc') = StageAt(t_pc) + 1
       /\ t_pc' = "split_run" => t_plan'.should_segment
    \/ /\ t_pc = "analyze" /\ t_pc' = "model"
       /\ ~t_plan'.should_segment
    \/ StageAt(t_pc) \in 4..5 /\ StageAt(t_pc') = StageAt(t_pc)

SameProgress(a, b) == a.num * b.den = b.num * a.den

\* the k-th progress value of a call with t_total segments
ExpectedProgress(k) ==
    IF k <= 4 THEN Percent(<< 5, 8, 10, 20 >>[k])
    ELSE IF k <= 4 + t_total
    THEN Fraction(24 * t_total + 66 * (k - 5), t_total)
    ELSE IF k = 5 + t_total THEN Percent(95)
    ELSE Percent(100)

ProgressAsClaimed ==
    /\ Len(t_reports) <= 6 + t_total
    /\ \A k \in 1..Len(t_reports) :
        /\ SameProgress(t_reports[k], ExpectedProgress(k))
        /\ AtMost(Percent(0), t_reports[k])
        /\ AtMost(t_reports[k], Percent(100))
        /\ k > 1 => AtMost(t_reports[k - 1], t_reports[k])
        /\ (k > 4 /\ k <= 4 + t_total) =>
            ~AtMost(Percent(90), t_reports[k])
        /\ SameProgress(t_reports[k], Percent(100)) =>
            /\ k = Len(t_reports)
            /\ t_pc = "returned"
            /\ "export" \in t_work

\* C30: a run of run_transcription goes through Validating, analysis,
\* Splitting (only when the plan says to segment), ModelReady, Transcribing,
\* Exporting and Done in this order, passing over no stage but Splitting;
\* the progress it reports never decreases (5, 8, 10, 20, then
\* 24 + 66*(i-1)/n below 90 for segment i of n, then 95, then 100) and stays
\* within 0..100; 100 is reported only after the output file is written and
\* never by a run that failed or was cancelled.
C30_StagesAndProgress == []ProgressAsClaimed /\ [][StagesInOrder]_vars

\* a run that split its input in two has returned after eight reports
C30_Witness ==
    /\ t_pc = "returned"
    /\ t_plan.should_segment
    /\ t_total = 2
    /\ Len(t_reports) = 8
    /\ t_reports[6] = Fraction(114, 2)
    /\ t_reports[8] = Percent(100)


\* the call removed exactly the items at the positions it named that were
\* positions of the queue before it, and returned how many they are
RemovedAsListed(call, items) ==
    /\ items = ItemsNotAt(call.before, ValidIndices(call), 1)
    /\ call.ret = << Cardinality(ValidIndices(call)) >>

\* C40: remove_indices removes exactly the items at the distinct positions
\* listed that are positions of the queue before the call, ignores the
\* others, keeps the order of the remaining items and returns the number of
\* items removed, for every list of indices, also one that is not sorted
\* or names a position twice.
C40_RemovesListedPositions ==
    q_last.op = "remove_indices" => RemovedAsListed(q_last, q_items)

\* C40 for the lists the list box gives: no position named twice
C40_RemovesDistinctPositions ==
    ( /\ q_last.op = "remove_indices"
      /\ Cardinality(Range(q_last.indices)) = Len(q_last.indices) )
        => RemovedAsListed(q_last, q_items)

\* a position named twice has taken the item after it as well
C40_Witness ==
    /\ q_last.op = "remove_indices"
    /\ q_last.indices = << 1, 1 >>
    /\ Len(q_last.before) = 3
    /\ q_items = << q_last.before[1] >>
    /\ q_last.ret = << 2 >>


\* the number of the attempt the call is at: the attempts of the earlier
\* strategies at their most, and those of this strategy
AttemptNumber(strategy, retry_idx, max_retries) ==
    (strategy - 1) * (max_retries + 1) + retry_idx + 1

FetchAttempt ==
    AttemptNumber(f_client, f_retry, MAX_METADATA_RETRIES_PER_CLIENT)

DlAttemptNumber ==
    AttemptNumber(dl_strategy, dl_retry, MAX_DOWNLOAD_RETRIES_PER_STRATEGY)

\* no attempt has a number above 6 for the metadata and 15 for the download
AttemptsWithinBudget ==
    /\ f_client \in 1..3 /\ f_retry \in 0..1 /\ FetchAttempt \in 1..6
    /\ dl_strategy \in 1..5 /\ dl_retry \in 0..2 /\ DlAttemptNumber \in 1..15

\* a step that leads to a further attempt leads to one with a higher number
AttemptsGoUp ==
    /\ (f_pc \in { "attempt", "sleep" } /\ f_pc' = "attempt"
            /\ fetchVars' # fetchVars)
        => FetchAttempt' > FetchAttempt
    /\ (dl_pc \in { "extract", "sleep" } /\ dl_pc' = "attempt")
        => DlAttemptNumber' > DlAttemptNumber
    /\ (dl_pc = "attempt" /\ dl_pc' = "extract")
        => DlAttemptNumber' = DlAttemptNumber

FetchLeft == f_pc \in { "returned", "raised" }
DownloadLeft == dl_pc \in { "returned", "raised" }

\* C39: fetch_video_info and download_audio always come to an end: whatever
\* the extractor does and with every wait completing, download_audio makes
\* at most 15 attempts (5 strategies of 3) and fetch_video_info at most 6
\* (3 clients of 2) before it returns or raises.
C39_RetriesTerminate ==
    /\ []AttemptsWithinBudget
    /\ [][AttemptsGoUp]_vars
    /\ (f_pc = "begin") ~> FetchLeft
    /\ (dl_pc = "begin") ~> DownloadLeft

\* the download has failed in its fifteenth attempt
C39_Witness ==
    /\ dl_pc = "raised"
    /\ DlAttemptNumber = 15
    /\ DlExhausted

\* run_transcription has been entered and has not passed the cancel check
\* before the export (line 633)
RunBeforeExport ==
    t_pc \in { "validate", "analyze", "split_run", "model", "loading",
               "transcribe", "segment", "model_call", "joined", "save" }

EndedCancelled ==
    t_pc = "raised" /\ t_exc.type = "TranscriptionCancelled"

\* the stage that was in progress has raised before the next check of the
\* flag: the validation, ffmpeg or the model load
EndedInStageFailure ==
    /\ t_pc = "raised"
    /\ \/ t_exc.type = "TranscriptionError"
          /\ "model" \notin t_work /\ "export" \notin t_work
       \/ t_exc = Exc("RuntimeError", "model could not be loaded")

\* with the flag set, a step of the run starts no segment, lets at most the
\* model call in progress complete, writes no output and does not return
NothingStartedOnceCancelled ==
    (cancel_event /\ RunBeforeExport) =>
        /\ ~ (t_pc = "segment" /\ t_pc' = "model_call")
        /\ Len(model_calls') <=
                Len(model_calls) + (IF t_pc = "model_call" THEN 1 ELSE 0)
        /\ "export" \notin t_work'
        /\ t_pc' # "returned"

\* the places of the checks: the end of the validation, the start and the
\* end of the split, before the model load, before the segments and before
\* each, after the last and before the export
CheckedAtBoundaries ==
    ( /\ cancel_event
      /\ t_pc' # t_pc
      /\ \/ t_pc \in { "model", "transcribe", "segment", "joined", "save" }
         \/ t_pc = "analyze" /\ t_pc' # "model" ) => EndedCancelled'

\* C31 as stated: once the cancel flag is set while run_transcription is in
\* progress and before its export-boundary check, no further segment is
\* started, no output file is written, and the run ends as Cancelled,
\* not Done and not Failed.
C31_CancelledRunEndsCancelled ==
    /\ [][NothingStartedOnceCancelled /\ CheckedAtBoundaries]_vars
    /\ [][(cancel_event /\ RunBeforeExport /\ t_pc' = "raised")
            => EndedCancelled']_vars
    /\ (cancel_event /\ RunBeforeExport) ~> EndedCancelled

\* C31: once the cancel flag is set while run_transcription is in progress
\* and before its export-boundary check, at most the model call in progress
\* completes, no further segment is started, no output file is written and
\* the run does not end as Done: it ends as Cancelled at the next check of
\* the flag, unless the stage in progress (validation, splitting, model
\* load) raises first, and then it ends as Failed.  The flag is checked
\* after validation, before and after splitting, before model loading,
\* before each segment, after the last segment and before exporting.
C31_CancelledRunEndsAtNextCheck ==
    /\ [][NothingStartedOnceCancelled /\ CheckedAtBoundaries]_vars
    /\ [][(cancel_event /\ RunBeforeExport /\ t_pc' = "raised")
            => (EndedCancelled' \/ EndedInStageFailure')]_vars
    /\ (cancel_event /\ RunBeforeExport)
            ~> (EndedCancelled \/ EndedInStageFailure)

\* the flag was set during the first of several segments: its model call
\* has completed, the second segment was not started and nothing is written
C31_Witness ==
    /\ EndedCancelled
    /\ cancel_event
    /\ Len(model_calls) = 1 /\ t_total > 1
    /\ "export" \notin t_work

TerminalKinds == { "batch_done", "cancelled", "error" }

\* the places of the events of one kind and item in what the worker has put
PutAt(kind, item) ==
    { k \in 1..Len(ui_queue) : ui_queue[k] = << kind, item >> }

TerminalPuts == { k \in 1..Len(ui_queue) : ui_queue[k][1] \in TerminalKinds }

\* at most one terminal event, nothing after it, and one when the worker
\* has ended
OneTerminalEventLast ==
    /\ Cardinality(TerminalPuts) <= 1
    /\ \A k \in TerminalPuts : k = Len(ui_queue)
    /\ w_pc = "done" <=> TerminalPuts # {}

\* the events of one item: started once and first, then at most one of done
\* and error
ItemEventsInOrder(item) ==
    LET started == PutAt("item_started", item)
        ended == PutAt("item_done", item) \cup PutAt("item_error", item)
    IN  /\ Cardinality(started) <= 1
        /\ Cardinality(ended) <= 1
        /\ \A k \in PutAt("progress", item) \cup ended :
                \E j \in started : j < k
        /\ item > 1 =>
                \A k \in started :
                    \E j \in PutAt("item_done", item - 1)
                            \cup PutAt("item_error", item - 1) : j < k

\* C38: every worker run puts exactly one terminal event (batch_done,
\* cancelled or error) and it is the last event the worker puts; for each
\* item, item_started precedes any progress event of that item, at most one
\* of item_done and item_error follows it, and item_started of item i+1 is
\* put only after item i's item_done or item_error.
C38_WorkerEventOrder ==
    /\ OneTerminalEventLast
    /\ \A item \in 1..Len(input_files) : ItemEventsInOrder(item)

\* a run of three items under the continue policy has ended: the first
\* failed, the others were started after it and batch_done is the last event
C38_Witness ==
    /\ w_pc = "done"
    /\ Len(input_files) = 3
    /\ PutAt("item_error", 1) # {} /\ PutAt("item_done", 2) # {}
    /\ PutAt("item_started", 3) # {}
    /\ ui_queue[Len(ui_queue)][1] = "batch_done"

\* the step is a call of fetch_video_info
IsFetch == fc_ops' # fc_ops

FetchKey == normalize_cache_key(fc_last'.url)

\* the cache holds an entry for the key that has not expired
Unexpired(cache, key, now, ttl) ==
    cache[key] # NoEntry /\ ttl > 0 /\ now - cache[key].at <= ttl

HitNeedsNoExtractor ==
    (IsFetch /\ FcValid[fc_last'.url]
        /\ Unexpired(fc_cache, FetchKey, fc_now, fc_ttl))
    => fc_last'.outcome = "returned" /\ fc_last'.extractor_calls = 0

InvalidUrlRejectedFirst ==
    (IsFetch /\ ~FcValid[fc_last'.url])
    => /\ fc_last'.outcome = "raised" /\ fc_last'.extractor_calls = 0
       /\ fc_cache' = fc_cache

\* the fetch got the metadata from the extractor
Extracted == fc_last'.outcome = "returned" /\ fc_last'.extractor_calls > 0

\* C35 as stated: an unexpired entry for the trimmed URL is returned without
\* an extractor call; a successful fetch stores its result, so that a
\* following fetch of the same URL within the TTL makes no extractor call; a
\* fetch that fails leaves the cache unchanged, and an invalid URL is
\* rejected before any extractor call.
C35_FetchConsultsCache ==
    [][ /\ HitNeedsNoExtractor
        /\ InvalidUrlRejectedFirst
        /\ (IsFetch /\ Extracted)
            => fc_cache'[FetchKey] = CacheEntry(fc_now, 1)
        /\ (IsFetch /\ FcValid[fc_last'.url] /\ fc_fetched[FetchKey] >= 0
                /\ fc_now - fc_fetched[FetchKey] <= fc_ttl)
            => fc_last'.extractor_calls = 0
        /\ (IsFetch /\ fc_last'.outcome = "raised") => fc_cache' = fc_cache
      ]_vars

\* C35: an unexpired entry for the trimmed URL is returned without an
\* extractor call; with a positive TTL a successful fetch stores its result,
\* so that a following fetch of the same URL within the TTL makes no
\* extractor call; a fetch that fails adds no entry and changes none that
\* has not expired (the lookup it made has dropped the expired ones), and
\* an invalid URL is rejected before any extractor call and any lookup.
C35_FetchConsultsLiveCache ==
    [][ /\ HitNeedsNoExtractor
        /\ InvalidUrlRejectedFirst
        /\ (IsFetch /\ Extracted /\ fc_ttl > 0)
            => fc_cache'[FetchKey] = CacheEntry(fc_now, 1)
        /\ (IsFetch /\ FcValid[fc_last'.url] /\ fc_ttl > 0
                /\ fc_fetched[FetchKey] >= 0
                /\ fc_now - fc_fetched[FetchKey] <= fc_ttl)
            => fc_last'.outcome = "returned" /\ fc_last'.extractor_calls = 0
        /\ (IsFetch /\ fc_last'.outcome = "raised")
            => fc_cache' =
                IF FcValid[fc_last'.url]
                THEN purge_expired_metadata_cache(fc_cache, fc_now, fc_ttl)
                ELSE fc_cache
      ]_vars

\* the metadata of v1 came from the extractor; a fetch of the same url with
\* blanks around it, made when exactly the TTL had passed, returned without
\* an extractor call
C35_Witness ==
    /\ fc_ttl > 0
    /\ fc_fetched["https://youtu.be/v1"] >= 0
    /\ fc_now - fc_fetched["https://youtu.be/v1"] = fc_ttl
    /\ fc_last = FetchCall(" https://youtu.be/v1 ", "returned", 0,
                           fc_last.before, fc_now)

\* the entries of the timeline that carry the index of the chunk, in order
ChunkEntries(idx) ==
    SelectSeq(tl_call.timeline, LAMBDA entry : entry.segment_index = idx)

IsUsable(sub) == strip(sub.text) # ""

\* the sub-segments of the chunk that have text
UsableSubs(idx) ==
    IF tl_call.results[idx].has_segments
    THEN SelectSeq(tl_call.results[idx].segments, IsUsable)
    ELSE << >>

\* (idx - 1) times the nominal length: effective_segment_seconds of the
\* plan when the input was split, 0 when it was not
NominalOffset(idx) ==
    (idx - 1) * (IF tl_call.plan.should_segment
                 THEN tl_call.plan.effective_segment_seconds * SECOND
                 ELSE 0)

\* the value is the time rounded to the millisecond
IsRounded(value, time) ==
    /\ value % TICKS_PER_MILLI = 0
    /\ 2 * (value - time) <= TICKS_PER_MILLI
    /\ 2 * (time - value) <= TICKS_PER_MILLI

TimelineSorted ==
    \A k \in 1..(Len(tl_call.timeline) - 1) :
        ~ SortsBefore(tl_call.timeline[k + 1], tl_call.timeline[k])

EndsNotBeforeStarts ==
    \A k \in 1..Len(tl_call.timeline) :
        tl_call.timeline[k].end_seconds >= tl_call.timeline[k].start_seconds

\* C32 as stated: the timeline_segments of every payload produced by the
\* segment transcriber are sorted by (start, end) and every item has
\* end >= start, for every number of chunks, every nominal chunk length and
\* every sequence of sub-segment start/end values returned by the model.
C32_TimelineSortedForward ==
    tl_call.made => (TimelineSorted /\ EndsNotBeforeStarts)

\* the model gave the sub-segments of one chunk with the later one first:
\* they are in the timeline in that order
C32_Witness ==
    /\ tl_call.made /\ Len(tl_call.results) = 1
    /\ Len(tl_call.timeline) = 2
    /\ tl_call.timeline[1].start_seconds = 2 * SECOND
    /\ tl_call.timeline[2].start_seconds = 0
    /\ EndsNotBeforeStarts

\* one synthesized entry: at the offset of the chunk, lasting
\* clamp(len(text) / 12, 1, 8) seconds to the millisecond
SynthesizedFor(idx, entries) ==
    LET text == strip(tl_call.results[idx].text)
        lasting == entries[1].end_seconds - entries[1].start_seconds
    IN  /\ Len(entries) = 1
        /\ entries[1].text = text
        /\ entries[1].start_seconds = NominalOffset(idx)
        /\ IF Len(text) <= 12 THEN lasting = SECOND
           ELSE IF Len(text) >= 96 THEN lasting = 8 * SECOND
           ELSE /\ 12 * lasting - Len(text) * SECOND <= 6 * TICKS_PER_MILLI
                /\ Len(text) * SECOND - 12 * lasting <= 6 * TICKS_PER_MILLI

\* what C33 says of the chunks that failed, that have text, and that have
\* text but no usable sub-segment
ContributesAsClaimed(idx) ==
    LET result == tl_call.results[idx]
        text == strip(result.text)
        entries == ChunkEntries(idx)
    IN  /\ result.raised => entries = << >>
        /\ (~result.raised /\ text # "") => entries # << >>
        /\ (~result.raised /\ text # "" /\ UsableSubs(idx) = << >>)
                => SynthesizedFor(idx, entries)

\* C33 as stated: every successfully transcribed segment whose text is
\* non-empty contributes at least one timeline item carrying its index;
\* without a usable sub-segment exactly one item is synthesized, at the
\* chunk's offset and lasting clamp(len(text)/12, 1, 8) seconds; a failed
\* segment or a segment with empty text contributes none.
C33_EveryTextHasAnEntry ==
    tl_call.made =>
        \A idx \in 1..Len(tl_call.results) :
            /\ ContributesAsClaimed(idx)
            /\ strip(tl_call.results[idx].text) = ""
                    => ChunkEntries(idx) = << >>

\* C33: every successfully transcribed segment whose text is non-empty
\* contributes at least one timeline item carrying its index; without a
\* usable sub-segment exactly one item is synthesized, at the chunk's offset
\* and lasting clamp(len(text)/12, 1, 8) seconds; a failed segment
\* contributes none, and a segment with empty text contributes only the
\* items of the sub-segments that have text of their own.
C33_EveryTextHasAnEntryOrSubs ==
    tl_call.made =>
        \A idx \in 1..Len(tl_call.results) :
            /\ ContributesAsClaimed(idx)
            /\ (~tl_call.results[idx].raised
                    /\ strip(tl_call.results[idx].text) = "")
                    => Len(ChunkEntries(idx)) = Len(UsableSubs(idx))

\* the second chunk has a text of thirty characters and no sub-segment: its
\* one entry starts at the nominal length and lasts two and a half seconds
C33_Witness ==
    /\ tl_call.made /\ Len(tl_call.results) = 2
    /\ tl_call.nominal = 300 * SECOND
    /\ tl_call.results[1].raised
    /\ tl_call.results[2] = ModelResult(FALSE, MediumText, FALSE, << >>)
    /\ tl_call.timeline =
            << TimelineEntry(1, 2, 300 * SECOND, 300 * SECOND + 2500 * TICKS_PER_MILLI,
                             MediumText) >>

\* the sub-segments with 0 <= start < end
Forward(sub) == 0 <= sub.start /\ sub.start < sub.end

\* C34 as stated: for chunk number idx and each of its sub-segments with
\* local times 0 <= start < end, the timeline item has global start
\* (idx-1) * nominal + start and global end (idx-1) * nominal + end.
C34_GlobalTimesExact ==
    tl_call.made =>
        \A idx \in 1..Len(tl_call.results) :
            ~tl_call.results[idx].raised =>
                LET subs == UsableSubs(idx)
                    entries == ChunkEntries(idx)
                IN  \A k \in 1..Len(subs) :
                        Forward(subs[k]) =>
                            /\ k <= Len(entries)
                            /\ entries[k].start_seconds
                                    = NominalOffset(idx) + subs[k].start
                            /\ entries[k].end_seconds
                                    = NominalOffset(idx) + subs[k].end

\* C34: for chunk number idx and each of its sub-segments with local times
\* 0 <= start < end, the timeline item has, rounded to the millisecond,
\* global start (idx-1) * nominal + start and global end
\* (idx-1) * nominal + end, or 0.01 s after the start when the sub-segment
\* is shorter than that, where nominal is the plan's
\* effective_segment_seconds when the input was split and 0 when it was
\* not; the offset is the nominal planned length.
C34_GlobalTimesRounded ==
    tl_call.made =>
        \A idx \in 1..Len(tl_call.results) :
            ~tl_call.results[idx].raised =>
                LET subs == UsableSubs(idx)
                    entries == ChunkEntries(idx)
                IN  \A k \in 1..Len(subs) :
                        Forward(subs[k]) =>
                            /\ k <= Len(entries)
                            /\ IsRounded(entries[k].start_seconds,
                                    NominalOffset(idx) + subs[k].start)
                            /\ IsRounded(entries[k].end_seconds,
                                    NominalOffset(idx)
                                    + IF subs[k].end - subs[k].start < CENTISECOND
                                      THEN subs[k].start + CENTISECOND
                                      ELSE subs[k].end)

\* the second chunk of a run split at 300 s has a sub-segment from 2 s to
\* 3 s: its entry runs from 302 s to 303 s
C34_Witness ==
    /\ tl_call.made /\ Len(tl_call.results) = 2
    /\ tl_call.nominal = 300 * SECOND
    /\ tl_call.results[2].has_segments
    /\ tl_call.results[2].segments = << SubSegment("a", 2 * SECOND, 3 * SECOND) >>
    /\ \E k \in 1..Len(tl_call.timeline) :
            /\ tl_call.timeline[k].segment_index = 2
            /\ tl_call.timeline[k].start_seconds = 302 * SECOND
            /\ tl_call.timeline[k].end_seconds = 303 * SECOND


(***************************************************************************)
(* The hand-off of the worker's events to the polling loop.                *)
(***************************************************************************)
\* the worker has put its terminal event and its thread has ended
HqWorkerFinished ==
    hq_worker.started /\ hq_worker.last # "none" /\ ~hq_worker.alive

\* C37 as stated: every event the worker thread puts on the event queue,
\* its terminal event included, is eventually taken by the polling loop,
\* and the application eventually leaves the running state after the
\* worker has finished, under every interleaving of a poll with the
\* worker's last put and its exit.
C37_EveryEventConsumed ==
    /\ (hq_queue # << >>) ~> (hq_queue = << >>)
    /\ HqWorkerFinished ~> ~hq_is_running

\* the terminal event was put after the poll saw the queue empty, and the
\* thread ended before the poll looked at it: the event stays in the
\* queue, no poll is scheduled, the application is still running
C37_Witness ==
    /\ HqWorkerFinished
    /\ hq_queue = << hq_worker.last >>
    /\ hq_poll = "none"
    /\ hq_is_running


(***************************************************************************)
(* The metrics sink of run_transcription.                                  *)
(***************************************************************************)
\* the place of a statement group among the stages: the stages before it
\* have completed when the call leaves from it
StagesBefore(left_at) ==
    CASE left_at = "resolve" -> 0
      [] left_at = "validate" -> 0
      [] left_at = "split" -> 2
      [] left_at = "model" -> 3
      [] left_at = "transcribe" -> 4
      [] left_at = "export" -> 5
      [] left_at = "return" -> 6

\* total_pipeline_seconds and the timings of the stages that completed in
\* the call, all measured by the call
ExpectedSink(call) ==
    { SinkEntry(name, call.number) :
        name \in { "total_pipeline_seconds" }
            \cup { StageMetrics[i] : i \in 1..StagesBefore(call.left_at) } }

SinkCallEnded == sm_pc = "idle" /\ sm_call.number > 0 /\ sm_call.supplied

\* the caller's dict changes in the finally clause and nowhere else
OnlyFinallyWrites ==
    stage_metrics' # stage_metrics => sm_pc = "finally" /\ sm_call.supplied

\* C36 as stated: on every exit path of run_transcription a supplied
\* metrics sink ends up containing total_pipeline_seconds together with the
\* timings of exactly the stages that completed in this run, and nothing
\* left over from before the call; inner stages never write to the sink.
C36_SinkRefilledOnEveryExit ==
    /\ [](SinkCallEnded => stage_metrics = ExpectedSink(sm_call))
    /\ [][OnlyFinallyWrites]_vars

\* C36: on every exit path of run_transcription that passes its finally
\* clause (success, failure at any stage, cancellation) a supplied metrics
\* sink ends up containing total_pipeline_seconds together with the timings
\* of exactly the stages the run got past, the split of a plan that does
\* not segment being one of them, and nothing left over from before the
\* call; a call that raises while it resolves its paths leaves the sink as
\* it was; the sink is written in the finally clause and nowhere else.
C36_SinkRefilledOnExit ==
    /\ [](SinkCallEnded =>
            IF sm_call.left_at = "resolve"
            THEN stage_metrics = sm_call.before
            ELSE stage_metrics = ExpectedSink(sm_call))
    /\ [][OnlyFinallyWrites]_vars

\* a cancelled call has ended with a sink that held, at the call, a timing
\* of an earlier call for a stage this call did not complete
C36_Witness ==
    /\ SinkCallEnded /\ sm_call.how = "cancelled"
    /\ \E e \in sm_call.before :
            /\ e.number < sm_call.number
            /\ SinkEntry(e.name, sm_call.number) \notin stage_metrics
    /\ stage_metrics = ExpectedSink(sm_call)

====
